---- MODULE Spec2Model ----
(***************************************************************************)
(* Branching history-evaluation engine of go-evals (package history).      *)
(*                                                                         *)
(* Two revisions of the engine are modelled side by side:                  *)
(*   impl = "apply"    Evaluator.apply / Evaluator.execute                 *)
(*                     (src/history/evaluator.go), pending Histories kept  *)
(*                     in the slice Evaluator.paths, popped from its end;  *)
(*   impl = "Evaluate" Evaluate / executeUntil (src/unnamed/part_005),     *)
(*                     pending Histories kept in an internal.Queue.        *)
(* The Subject is supplied by the caller: it is modelled as a family of    *)
(* deterministic state machines, one drawn in Init (cfg).                  *)
(***************************************************************************)
EXTENDS Integers, Sequences, FiniteSets, TLC

\* Bounds of the model.
MaxK == 2
MaxDepth == 3
MaxLen == 5
MaxTimeline == 3
MaxHist == 3
MaxViews == 1
MaxArrays == 3

VARIABLES
    cfg,        \* the Subject family member, the revision and the consumer
    pc,         \* position of the generator function
    paths,      \* Evaluator.paths / all_paths: pending Histories, slice order
    top,        \* the History of the path being explored (top / history)
    subject,    \* the live Subject: [id, state], id = 0 is the nil Subject
    nsubj,      \* number of initFn calls so far
    invalids,   \* buffered invalid Results
    idx,        \* position of the final loop over invalids
    yielded,    \* ghost: Results handed to the consumer, in order
    calls,      \* ghost: initFn / ApplyEvent / NextEvents calls, in order
    pushLog,    \* ghost: timelines of the Histories added to paths, in order
    popLog,     \* ghost: for each removal, the History taken and the pending ones
    ended,      \* ghost: paths that terminated, in order
    stopped,    \* the consumer returned false from yield
    acc,        \* execute's Accumulator: [results, is_valid]
    ret,        \* execute's return value: [done, results, err]
    pool,       \* History values in use: [h, s, by, from], s the slice holding
                \* h.timeline, by and from the operation and the History that
                \* made it
    mem,        \* backing arrays of the slices, by array number
    views,      \* slices handed out by TimelineOf / Timeline / NewResult
    last,       \* ghost: the latest operation on a History value
    downcast,   \* a call of SubjectOf: [S, result, called, s, err]
    elements,   \* parallel Evaluate: what evalFn does for each element of elems
    tasks,      \* the per-element tasks of ExecuteBatch: ready, done or failed
    ch,         \* the channel of Pairs, in arrival order
    closed,     \* close(ch) has been called
    valid_sols, \* the listener's valid results
    invalid_sols, \* the listener's invalid results: [nil, elems]
    wg,         \* the wait group counter
    at,         \* position of the function returned by parallel Evaluate
    out,        \* its return value: [results, err]
    seen,       \* ghost: the Pairs the listener has received, in order
    accumulator, \* an Accumulator used on its own: [results, is_valid]
    queue,      \* an internal.Queue used on its own: its elems
    eos,        \* an ErrRorSol used on its own: [errs, sols], each [nil, elems]
    chan,       \* a channel given to common.Close: [nil, closed, buf]
    exec,       \* a call of matcher.Execute: [m, slice, i, early_exit, at, ret]
    runs,       \* ghost: what the earlier runs on the same Evaluator yielded
    trace       \* ghost: the calls made on the object used on its own, in order

vars == <<cfg, pc, paths, top, subject, nsubj, invalids, idx, yielded, calls,
          pushLog, popLog, ended, stopped, acc, ret, pool, mem, views, last,
          downcast, elements, tasks, ch, closed, valid_sols, invalid_sols, wg, at,
          out, seen, accumulator, queue, eos, chan, exec, runs, trace>>

\* the state of the evaluation engine
engine == <<cfg, pc, paths, top, subject, nsubj, invalids, idx, yielded, calls,
            pushLog, popLog, ended, stopped, acc, ret>>

\* the state of the History values
store == <<pool, mem, views, last>>

\* the state of the helpers around the engine
side == <<downcast, elements, tasks, ch, closed, valid_sols, invalid_sols, wg, at,
          out, seen, accumulator, queue, eos, chan, exec, runs, trace>>

\* the data structures of the library used on their own
aux == <<accumulator, queue, eos, chan, exec, runs, trace>>

\* the state of one call of the function returned by parallel Evaluate
batch == <<elements, tasks, ch, closed, valid_sols, invalid_sols, wg, at, out, seen>>

\* what a yield and the consumer change
consumer == <<yielded, stopped, acc, ret>>

----------------------------------------------------------------------------
\* slices.Reverse
Reverse(s) == [i \in 1..Len(s) |-> s[Len(s) + 1 - i]]

----------------------------------------------------------------------------
\* History (src/history/history.go, src/history/emulate.go).

EmptyHistory == [timeline |-> <<>>, arrow |-> 0]

TimelineOf(h) == h.timeline

AppendEvent(h, event) ==
    [timeline |-> Append(h.timeline, event), arrow |-> h.arrow]

\* Restart without the copy of the timeline
RestartEmpty(h) == [timeline |-> <<>>, arrow |-> 0]

\* Restart leaving the arrow where it is
RestartKeep(h) == h

Restart(h) == [timeline |-> h.timeline, arrow |-> 0]

\* WalkForward returning the event at the new position of the arrow
WalkForwardNext(h) ==
    IF h.arrow >= Len(h.timeline)
    THEN [h |-> h, event |-> -1, err |-> "ErrEOT"]
    ELSE [h |-> [timeline |-> h.timeline, arrow |-> h.arrow + 1],
          event |-> IF h.arrow + 2 <= Len(h.timeline) THEN h.timeline[h.arrow + 2] ELSE -1,
          err |-> "nil"]

\* WalkForward / Walk: [h, event, err]
WalkForward(h) ==
    IF h.arrow >= Len(h.timeline)
    THEN [h |-> h, event |-> -1, err |-> "ErrEOT"]
    ELSE [h |-> [timeline |-> h.timeline, arrow |-> h.arrow + 1],
          event |-> h.timeline[h.arrow + 1], err |-> "nil"]

\* WalkBackward without the test of the arrow
WalkBackwardNoCheck(h) ==
    [h |-> [timeline |-> h.timeline, arrow |-> h.arrow - 1], event |-> -1, err |-> "nil"]

\* WalkBackward: [h, event, err]
WalkBackward(h) ==
    IF h.arrow = 0
    THEN [h |-> h, event |-> -1, err |-> "ErrEOT"]
    ELSE [h |-> [timeline |-> h.timeline, arrow |-> h.arrow - 1],
          event |-> h.timeline[h.arrow], err |-> "nil"]

----------------------------------------------------------------------------
\* The Subject contract, for the family member cfg. A Subject's state is the
\* sequence of events applied to it.

NoSoft == [pos |-> -1, evs |-> {}]

NoFatal == [op |-> "none", pos |-> 0, ev |-> 0]

SoftRules(k, d) ==
    {NoSoft} \cup {[pos |-> 0, evs |-> 0..(k - 1)]}
             \cup {[pos |-> p, evs |-> E] :
                      p \in 1..d, E \in {{e} : e \in 0..(k - 1)} \cup {0..(k - 1)}}

FatalRules(k, d) ==
    {NoFatal} \cup {[op |-> "apply", pos |-> p, ev |-> e] : p \in 1..d, e \in 0..(k - 1)}
              \cup {[op |-> "next", pos |-> p, ev |-> 0] : p \in 0..d}
              \cup {[op |-> "init", pos |-> n, ev |-> 0] : n \in 1..2}
              \cup {[op |-> "nil", pos |-> n, ev |-> 0] : n \in 1..2}

HasError(s) ==
    /\ cfg.soft.pos >= 0
    /\ Len(s) >= cfg.soft.pos
    /\ (cfg.soft.pos = 0 \/ s[cfg.soft.pos] \in cfg.soft.evs)

\* NextEvents: [events, err]
NextEvents(s) ==
    IF cfg.fatal.op = "next" /\ Len(s) = cfg.fatal.pos
    THEN [events |-> <<>>, err |-> "NextEvents"]
    ELSE IF (cfg.stuck /\ HasError(s)) \/ Len(s) >= cfg.d
         THEN [events |-> <<>>, err |-> "nil"]
         ELSE [events |-> [i \in 1..cfg.k |-> i - 1], err |-> "nil"]

\* ApplyEvent: [state, err]
ApplyEvent(s, event) ==
    IF cfg.fatal.op = "apply" /\ Len(s) + 1 = cfg.fatal.pos /\ event = cfg.fatal.ev
    THEN [state |-> s, err |-> "ApplyEvent"]
    ELSE [state |-> Append(s, event), err |-> "nil"]

\* ghost records of the calls made on the Subject numbered id
CallInit(id, err) == [op |-> "initFn", subj |-> id, ev |-> -1, err |-> err]

CallNext(id, err) == [op |-> "NextEvents", subj |-> id, ev |-> -1, err |-> err]

CallApply(id, event, err) == [op |-> "ApplyEvent", subj |-> id, ev |-> event, err |-> err]

----------------------------------------------------------------------------
\* Result (src/unnamed/part_002).

NewResult(history, subj, err) ==
    [Timeline |-> TimelineOf(history), Subject |-> subj.id, State |-> subj.state,
     HasErr |-> HasError(subj.state), Error |-> err]

----------------------------------------------------------------------------
\* Accumulator (src/result/accumulator.go).

EmptyAcc == [results |-> <<>>, is_valid |-> FALSE]

\* Reset leaving is_valid as it is
ResetKeepFlag(a) == [results |-> <<>>, is_valid |-> a.is_valid]

Reset(a) == [results |-> <<>>, is_valid |-> FALSE]

\* AddValid leaving the accumulator unmarked
AddValidUnmarked(a, elem) ==
    [results |-> Append(IF ~a.is_valid /\ Len(a.results) > 0 THEN <<>> ELSE a.results, elem),
     is_valid |-> a.is_valid]

AddValid(a, elem) ==
    [results |-> Append(IF ~a.is_valid /\ Len(a.results) > 0 THEN <<>> ELSE a.results, elem),
     is_valid |-> TRUE]

\* AddInvalid without the is_valid test
AddInvalidAlways(a, elem) == [results |-> Append(a.results, elem), is_valid |-> a.is_valid]

\* AddInvalid overwriting the stored results instead of appending
AddInvalidLatest(a, elem) ==
    IF a.is_valid THEN a ELSE [results |-> <<elem>>, is_valid |-> a.is_valid]

AddInvalid(a, elem) ==
    IF a.is_valid THEN a ELSE [results |-> Append(a.results, elem), is_valid |-> a.is_valid]

Results(a) == a.results

----------------------------------------------------------------------------
\* The consumer of the sequence. Under mode "AsSeq" it is the caller's range
\* loop, which may stop after any item (cont = FALSE); under mode "Execute"
\* it is the loop body of Evaluator.execute.

NoRet == [done |-> FALSE, results |-> <<>>, err |-> "nil"]

\* execute's loop body adding the Result to the Accumulator before looking
\* at its Error
executeBodyAddFirst(res) ==
    LET a == IF ~res.HasErr THEN AddValid(acc, res) ELSE AddInvalid(acc, res) IN
    IF res.Error # "nil"
    THEN /\ ret' = [done |-> TRUE, results |-> Results(a), err |-> res.Error]
         /\ acc' = Reset(a)
         /\ stopped' = TRUE
    ELSE /\ acc' = a
         /\ ret' = ret
         /\ stopped' = FALSE

\* execute, lines 297-311
executeBody(res) ==
    IF res.Error # "nil"
    THEN /\ ret' = [done |-> TRUE, results |-> Results(acc), err |-> res.Error]
         /\ acc' = Reset(acc)
         /\ stopped' = TRUE
    ELSE /\ acc' = IF ~res.HasErr THEN AddValid(acc, res) ELSE AddInvalid(acc, res)
         /\ ret' = ret
         /\ stopped' = FALSE

Yield(res, cont) ==
    /\ yielded' = Append(yielded, res)
    /\ IF cfg.mode = "Execute"
       THEN executeBody(res)
       ELSE /\ stopped' = ~cont
            /\ UNCHANGED <<acc, ret>>

\* Fatal with the return left out: the loop goes on with the next History
FatalContinue(res) ==
    /\ Yield(res, TRUE)
    /\ pc' = "pop"

\* _ = yield(NewResult(top, subject, err)); return
Fatal(res) ==
    /\ Yield(res, TRUE)
    /\ pc' = "done"

\* execute, line 313, after the sequence has ended
ExecuteReturn ==
    /\ pc = "done"
    /\ cfg.mode = "Execute"
    /\ ~ret.done
    /\ ret' = [done |-> TRUE, results |-> Results(acc), err |-> "nil"]
    /\ acc' = Reset(acc)
    /\ UNCHANGED <<cfg, pc, paths, top, subject, nsubj, invalids, idx, yielded,
                   calls, pushLog, popLog, ended, stopped>>
    /\ UNCHANGED store
    /\ UNCHANGED side

----------------------------------------------------------------------------
\* initFn: the n-th call fails when cfg.fatal = [op |-> "init", pos |-> n]
\* and returns a nil Subject without an error when cfg.fatal =
\* [op |-> "nil", pos |-> n]. The nil Subject is the one numbered 0.

initFn(n) ==
    IF cfg.fatal.op = "init" /\ cfg.fatal.pos = n
    THEN [subject |-> [id |-> 0, state |-> <<>>], err |-> "initFn"]
    ELSE IF cfg.fatal.op = "nil" /\ cfg.fatal.pos = n
    THEN [subject |-> [id |-> 0, state |-> <<>>], err |-> "nil"]
    ELSE [subject |-> [id |-> n, state |-> <<>>], err |-> "nil"]

\* subject == nil
IsNil(subj) == subj.id = 0

\* a failed assertion or a method call on the nil Subject: the goroutine
\* panics, nothing is yielded and nothing runs after it
Panic ==
    /\ pc' = "panic"
    /\ UNCHANGED <<cfg, paths, top, subject, nsubj, invalids, idx, calls,
                   pushLog, popLog, ended>>
    /\ UNCHANGED consumer

----------------------------------------------------------------------------
\* Ghost records.

Timelines(hs) == [i \in 1..Len(hs) |-> hs[i].timeline]

\* the Histories appended to the slice old to give the slice new
Added(old, new) == SubSeq(new, Len(old) + 1, Len(new))

PopEntry(h, ps) == [taken |-> h.timeline, pending |-> Timelines(ps)]

EndEntry(history, subj) ==
    [Timeline |-> history.timeline, Subject |-> subj.id, HasErr |-> HasError(subj.state)]

----------------------------------------------------------------------------
\* Helpers of Evaluator.apply whose source is not part of the repository
\* snapshot (align, nextEvents, walkOnce), from section 4.3 of the design.

\* align: replay of the recorded events, in order, from the arrow on:
\* [history, state, err, log]
RECURSIVE align(_, _)
align(subj, history) ==
    LET w == WalkForward(history) IN
    IF w.err # "nil"
    THEN [history |-> history, state |-> subj.state, err |-> "nil", log |-> <<>>]
    ELSE LET a == ApplyEvent(subj.state, w.event) IN
         IF a.err # "nil"
         THEN [history |-> w.h, state |-> a.state, err |-> a.err,
               log |-> <<CallApply(subj.id, w.event, a.err)>>]
         ELSE LET r == align([id |-> subj.id, state |-> a.state], w.h) IN
              [r EXCEPT !.log = <<CallApply(subj.id, w.event, "nil")>> \o r.log]

\* nextEvents: one new History per candidate, in the order offered: [nexts, err]
nextEvents(subj, history) ==
    LET n == NextEvents(subj.state) IN
    [nexts |-> [i \in 1..Len(n.events) |-> AppendEvent(history, n.events[i])],
     err |-> n.err]

\* walkOnce: one step forward and the event applied: [history, state, err, log]
walkOnce(subj, history) ==
    LET w == WalkForward(history) IN
    IF w.err # "nil"
    THEN [history |-> history, state |-> subj.state, err |-> w.err, log |-> <<>>]
    ELSE LET a == ApplyEvent(subj.state, w.event) IN
         [history |-> w.h, state |-> a.state, err |-> a.err,
          log |-> <<CallApply(subj.id, w.event, a.err)>>]

----------------------------------------------------------------------------
\* Evaluator (src/history/evaluator.go).

\* Evaluator.push: the elements are appended in reverse order
push(ps, elems) == IF Len(elems) = 0 THEN ps ELSE ps \o Reverse(elems)

\* pop taking the head of the slice instead of its end
popFront(ps) ==
    IF Len(ps) = 0
    THEN [history |-> EmptyHistory, ok |-> FALSE, paths |-> ps]
    ELSE [history |-> ps[1], ok |-> TRUE, paths |-> SubSeq(ps, 2, Len(ps))]

\* pop dropping the History below the one it returns
popTwo(ps) ==
    IF Len(ps) = 0
    THEN [history |-> EmptyHistory, ok |-> FALSE, paths |-> ps]
    ELSE [history |-> ps[Len(ps)], ok |-> TRUE,
          paths |-> IF Len(ps) = 1 THEN <<>> ELSE SubSeq(ps, 1, Len(ps) - 2)]

\* Evaluator.pop: [history, ok, paths]
pop(ps) ==
    IF Len(ps) = 0
    THEN [history |-> EmptyHistory, ok |-> FALSE, paths |-> ps]
    ELSE [history |-> ps[Len(ps)], ok |-> TRUE, paths |-> SubSeq(ps, 1, Len(ps) - 1)]

\* applyOnce continuing with the first new History instead of the last
applyOnceFirst(subj, history, ps) ==
    LET nx == nextEvents(subj, history) IN
    IF nx.err # "nil"
    THEN [history |-> history, state |-> subj.state, paths |-> ps, err |-> nx.err,
          log |-> <<CallNext(subj.id, nx.err)>>]
    ELSE IF Len(nx.nexts) = 0
    THEN [history |-> history, state |-> subj.state, paths |-> ps, err |-> "ErrBreak",
          log |-> <<CallNext(subj.id, "nil")>>]
    ELSE LET w == walkOnce(subj, nx.nexts[1]) IN
         [history |-> w.history, state |-> w.state,
          paths |-> push(ps, SubSeq(nx.nexts, 2, Len(nx.nexts))),
          err |-> IF w.err # "nil" THEN w.err
                  ELSE IF HasError(w.state) THEN "ErrBreak" ELSE "nil",
          log |-> <<CallNext(subj.id, "nil")>> \o w.log]

\* applyOnce adding every new History, the one it continues with included
applyOnceAll(subj, history, ps) ==
    LET nx == nextEvents(subj, history) IN
    IF nx.err # "nil"
    THEN [history |-> history, state |-> subj.state, paths |-> ps, err |-> nx.err,
          log |-> <<CallNext(subj.id, nx.err)>>]
    ELSE IF Len(nx.nexts) = 0
    THEN [history |-> history, state |-> subj.state, paths |-> ps, err |-> "ErrBreak",
          log |-> <<CallNext(subj.id, "nil")>>]
    ELSE LET w == walkOnce(subj, nx.nexts[Len(nx.nexts)]) IN
         [history |-> w.history, state |-> w.state,
          paths |-> push(ps, nx.nexts),
          err |-> IF w.err # "nil" THEN w.err
                  ELSE IF HasError(w.state) THEN "ErrBreak" ELSE "nil",
          log |-> <<CallNext(subj.id, "nil")>> \o w.log]

\* applyOnce going on whatever HasError says after the event
applyOnceDeaf(subj, history, ps) ==
    LET nx == nextEvents(subj, history) IN
    IF nx.err # "nil"
    THEN [history |-> history, state |-> subj.state, paths |-> ps, err |-> nx.err,
          log |-> <<CallNext(subj.id, nx.err)>>]
    ELSE IF Len(nx.nexts) = 0
    THEN [history |-> history, state |-> subj.state, paths |-> ps, err |-> "ErrBreak",
          log |-> <<CallNext(subj.id, "nil")>>]
    ELSE LET w == walkOnce(subj, nx.nexts[Len(nx.nexts)]) IN
         [history |-> w.history, state |-> w.state,
          paths |-> push(ps, SubSeq(nx.nexts, 1, Len(nx.nexts) - 1)),
          err |-> w.err,
          log |-> <<CallNext(subj.id, "nil")>> \o w.log]

\* Evaluator.applyOnce: [history, state, paths, err, log]
applyOnce(subj, history, ps) ==
    LET nx == nextEvents(subj, history) IN
    IF nx.err # "nil"
    THEN [history |-> history, state |-> subj.state, paths |-> ps, err |-> nx.err,
          log |-> <<CallNext(subj.id, nx.err)>>]
    ELSE IF Len(nx.nexts) = 0
    THEN [history |-> history, state |-> subj.state, paths |-> ps, err |-> "ErrBreak",
          log |-> <<CallNext(subj.id, "nil")>>]
    ELSE LET w == walkOnce(subj, nx.nexts[Len(nx.nexts)]) IN
         [history |-> w.history, state |-> w.state,
          paths |-> push(ps, SubSeq(nx.nexts, 1, Len(nx.nexts) - 1)),
          err |-> IF w.err # "nil" THEN w.err
                  ELSE IF HasError(w.state) THEN "ErrBreak" ELSE "nil",
          log |-> <<CallNext(subj.id, "nil")>> \o w.log]

\* apply without the push of the empty History
ApplySeedNone ==
    /\ pc = "start"
    /\ cfg.impl = "apply"
    /\ pc' = "pop"
    /\ UNCHANGED <<cfg, paths, top, subject, nsubj, invalids, idx, calls, pushLog,
                   popLog, ended>>
    /\ UNCHANGED consumer
    /\ UNCHANGED store
    /\ UNCHANGED side

\* apply with the seed pushed on the pending collection as the run before
\* left it
ApplySeedOnReceiver ==
    /\ pc = "start"
    /\ cfg.impl = "apply"
    /\ paths' = push(paths, <<EmptyHistory>>)
    /\ pushLog' = pushLog \o Timelines(Added(paths, paths'))
    /\ pc' = "pop"
    /\ UNCHANGED <<cfg, top, subject, nsubj, invalids, idx, calls, popLog, ended>>
    /\ UNCHANGED consumer
    /\ UNCHANGED store
    /\ UNCHANGED side

\* apply, lines 176-184: the seed, pushed on the pending collection of an
\* Evaluator of its own
ApplySeed ==
    /\ pc = "start"
    /\ cfg.impl = "apply"
    /\ LET e == [paths |-> <<>>] IN
       /\ paths' = push(e.paths, <<EmptyHistory>>)
       /\ pushLog' = pushLog \o Timelines(Added(e.paths, paths'))
    /\ pc' = "pop"
    /\ UNCHANGED <<cfg, top, subject, nsubj, invalids, idx, calls, popLog, ended>>
    /\ UNCHANGED consumer
    /\ UNCHANGED store
    /\ UNCHANGED side

\* ApplyPop without the Restart of the History taken
ApplyPopNoRestart ==
    /\ pc = "pop"
    /\ cfg.impl = "apply"
    /\ LET p == pop(paths) IN
       IF ~p.ok
       THEN /\ pc' = "flush"
            /\ UNCHANGED <<paths, top, popLog>>
       ELSE /\ top' = p.history
            /\ paths' = p.paths
            /\ popLog' = Append(popLog, PopEntry(p.history, paths))
            /\ pc' = "init"
    /\ UNCHANGED <<cfg, subject, nsubj, invalids, idx, calls, pushLog, ended>>
    /\ UNCHANGED consumer
    /\ UNCHANGED store
    /\ UNCHANGED side

\* ApplyPop with the loop going on when no History is pending
ApplyPopSpin ==
    /\ pc = "pop"
    /\ cfg.impl = "apply"
    /\ LET p == pop(paths) IN
       IF ~p.ok
       THEN /\ pc' = "pop"
            /\ UNCHANGED <<paths, top, popLog>>
       ELSE /\ top' = Restart(p.history)
            /\ paths' = p.paths
            /\ popLog' = Append(popLog, PopEntry(p.history, paths))
            /\ pc' = "init"
    /\ UNCHANGED <<cfg, subject, nsubj, invalids, idx, calls, pushLog, ended>>
    /\ UNCHANGED consumer
    /\ UNCHANGED store
    /\ UNCHANGED side

\* apply, lines 187-192: pop and Restart
ApplyPop ==
    /\ pc = "pop"
    /\ cfg.impl = "apply"
    /\ LET p == pop(paths) IN
       IF ~p.ok
       THEN /\ pc' = "flush"
            /\ UNCHANGED <<paths, top, popLog>>
       ELSE /\ top' = Restart(p.history)
            /\ paths' = p.paths
            /\ popLog' = Append(popLog, PopEntry(p.history, paths))
            /\ pc' = "init"
    /\ UNCHANGED <<cfg, subject, nsubj, invalids, idx, calls, pushLog, ended>>
    /\ UNCHANGED consumer
    /\ UNCHANGED store
    /\ UNCHANGED side

\* ApplyInit going on with the Subject of the path before, once there is one
ApplyInitReuse ==
    /\ pc = "init"
    /\ cfg.impl = "apply"
    /\ IF nsubj > 0
       THEN /\ pc' = "align"
            /\ UNCHANGED <<subject, nsubj, calls>>
            /\ UNCHANGED consumer
       ELSE LET i == initFn(nsubj + 1) IN
            /\ nsubj' = nsubj + 1
            /\ subject' = i.subject
            /\ calls' = Append(calls, CallInit(nsubj + 1, i.err))
            /\ IF i.err # "nil"
               THEN Fatal(NewResult(top, i.subject, i.err))
               ELSE /\ pc' = "align"
                    /\ UNCHANGED consumer
    /\ UNCHANGED <<cfg, paths, top, invalids, idx, pushLog, popLog, ended>>
    /\ UNCHANGED store
    /\ UNCHANGED side

\* apply, lines 194-198: a fresh Subject
ApplyInit ==
    /\ pc = "init"
    /\ cfg.impl = "apply"
    /\ LET i == initFn(nsubj + 1) IN
       /\ nsubj' = nsubj + 1
       /\ subject' = i.subject
       /\ calls' = Append(calls, CallInit(nsubj + 1, i.err))
       /\ IF i.err # "nil"
          THEN Fatal(NewResult(top, i.subject, i.err))
          ELSE /\ pc' = "align"
               /\ UNCHANGED consumer
    /\ UNCHANGED <<cfg, paths, top, invalids, idx, pushLog, popLog, ended>>
    /\ UNCHANGED store
    /\ UNCHANGED side

\* apply, lines 200-204: the replay
ApplyAlign ==
    /\ pc = "align"
    /\ cfg.impl = "apply"
    /\ IF IsNil(subject) /\ WalkForward(top).err = "nil"
       THEN Panic
       ELSE LET r == align(subject, top) IN
            /\ top' = r.history
            /\ subject' = [subject EXCEPT !.state = r.state]
            /\ calls' = calls \o r.log
            /\ IF r.err # "nil"
               THEN Fatal(NewResult(r.history, [subject EXCEPT !.state = r.state], r.err))
               ELSE /\ pc' = "step"
                    /\ UNCHANGED consumer
            /\ UNCHANGED <<cfg, paths, nsubj, invalids, idx, pushLog, popLog, ended>>
    /\ UNCHANGED store
    /\ UNCHANGED side

\* ApplyStep without the test for ErrBreak: every error of applyOnce is fatal
ApplyStepNoBreak ==
    /\ pc = "step"
    /\ cfg.impl = "apply"
    /\ IF IsNil(subject)
       THEN Panic
       ELSE LET r == applyOnce(subject, top, paths) IN
            /\ top' = r.history
            /\ subject' = [subject EXCEPT !.state = r.state]
            /\ paths' = r.paths
            /\ pushLog' = pushLog \o Timelines(Added(paths, r.paths))
            /\ calls' = calls \o r.log
            /\ IF r.err # "nil"
               THEN Fatal(NewResult(r.history, [subject EXCEPT !.state = r.state], r.err))
               ELSE /\ pc' = "step"
                    /\ UNCHANGED consumer
            /\ UNCHANGED <<cfg, nsubj, invalids, idx, popLog, ended>>
    /\ UNCHANGED store
    /\ UNCHANGED side

\* apply, lines 206-220: one iteration of the loop around applyOnce
ApplyStep ==
    /\ pc = "step"
    /\ cfg.impl = "apply"
    /\ IF IsNil(subject)
       THEN Panic
       ELSE LET r == applyOnce(subject, top, paths) IN
            /\ top' = r.history
            /\ subject' = [subject EXCEPT !.state = r.state]
            /\ paths' = r.paths
            /\ pushLog' = pushLog \o Timelines(Added(paths, r.paths))
            /\ calls' = calls \o r.log
            /\ IF r.err = "ErrBreak"
               THEN /\ pc' = "classify"
                    /\ UNCHANGED consumer
               ELSE IF r.err # "nil"
               THEN Fatal(NewResult(r.history, [subject EXCEPT !.state = r.state], r.err))
               ELSE /\ pc' = "step"
                    /\ UNCHANGED consumer
            /\ UNCHANGED <<cfg, nsubj, invalids, idx, popLog, ended>>
    /\ UNCHANGED store
    /\ UNCHANGED side

\* ApplyClassify keeping every Result, valid or not, for the end of the run
ApplyClassifyLate ==
    /\ pc = "classify"
    /\ cfg.impl = "apply"
    /\ ended' = Append(ended, EndEntry(top, subject))
    /\ invalids' = Append(invalids, NewResult(top, subject, "nil"))
    /\ pc' = "pop"
    /\ UNCHANGED consumer
    /\ UNCHANGED <<cfg, paths, top, subject, nsubj, idx, calls, pushLog, popLog>>
    /\ UNCHANGED store
    /\ UNCHANGED side

\* ApplyClassify going on whatever yield returns
ApplyClassifyDeaf ==
    /\ pc = "classify"
    /\ cfg.impl = "apply"
    /\ ended' = Append(ended, EndEntry(top, subject))
    /\ LET r == NewResult(top, subject, "nil") IN
       IF HasError(subject.state)
       THEN /\ invalids' = Append(invalids, r)
            /\ UNCHANGED consumer
       ELSE /\ \E cont \in BOOLEAN : Yield(r, cont)
            /\ UNCHANGED invalids
    /\ pc' = "pop"
    /\ UNCHANGED <<cfg, paths, top, subject, nsubj, idx, calls, pushLog, popLog>>
    /\ UNCHANGED store
    /\ UNCHANGED side

\* apply, lines 222-228: the Result of a terminated path
ApplyClassify ==
    /\ pc = "classify"
    /\ cfg.impl = "apply"
    /\ ended' = Append(ended, EndEntry(top, subject))
    /\ LET r == NewResult(top, subject, "nil") IN
       IF HasError(subject.state)
       THEN /\ invalids' = Append(invalids, r)
            /\ pc' = "pop"
            /\ UNCHANGED consumer
       ELSE /\ \E cont \in BOOLEAN : Yield(r, cont)
            /\ pc' = IF stopped' THEN "done" ELSE "pop"
            /\ UNCHANGED invalids
    /\ UNCHANGED <<cfg, paths, top, subject, nsubj, idx, calls, pushLog, popLog>>
    /\ UNCHANGED store
    /\ UNCHANGED side

\* ApplyFlush going through invalids from the last to the first
ApplyFlushBackwards ==
    /\ pc = "flush"
    /\ cfg.impl = "apply"
    /\ IF idx > Len(invalids)
       THEN /\ pc' = "done"
            /\ UNCHANGED idx
            /\ UNCHANGED consumer
       ELSE /\ \E cont \in BOOLEAN : Yield(invalids[Len(invalids) + 1 - idx], cont)
            /\ idx' = idx + 1
            /\ pc' = IF stopped' THEN "done" ELSE "flush"
    /\ UNCHANGED <<cfg, paths, top, subject, nsubj, invalids, calls, pushLog,
                   popLog, ended>>
    /\ UNCHANGED store
    /\ UNCHANGED side

\* apply, lines 231-235: the buffered invalid Results
ApplyFlush ==
    /\ pc = "flush"
    /\ cfg.impl = "apply"
    /\ IF idx > Len(invalids)
       THEN /\ pc' = "done"
            /\ UNCHANGED idx
            /\ UNCHANGED consumer
       ELSE /\ \E cont \in BOOLEAN : Yield(invalids[idx], cont)
            /\ idx' = idx + 1
            /\ pc' = IF stopped' THEN "done" ELSE "flush"
    /\ UNCHANGED <<cfg, paths, top, subject, nsubj, invalids, calls, pushLog,
                   popLog, ended>>
    /\ UNCHANGED store
    /\ UNCHANGED side

----------------------------------------------------------------------------
\* internal.Queue (src/history/internal/queue.go).

Enqueue(q, e) == Append(q, e)

\* Dequeue: [elem, queue]; only called on a non-empty queue
\* *new(E), the zero value of the element type
ZeroElem == "zero"

\* Dequeue taking the element added last
DequeueLast(q) ==
    IF Len(q) = 0
    THEN [elem |-> ZeroElem, queue |-> q, err |-> "ErrEmptyQueue"]
    ELSE [elem |-> q[Len(q)], queue |-> SubSeq(q, 1, Len(q) - 1), err |-> "nil"]

\* Dequeue: [elem, queue, err]
Dequeue(q) ==
    IF Len(q) = 0
    THEN [elem |-> ZeroElem, queue |-> q, err |-> "ErrEmptyQueue"]
    ELSE [elem |-> q[1], queue |-> SubSeq(q, 2, Len(q)), err |-> "nil"]

IsEmpty(q) == Len(q) = 0

----------------------------------------------------------------------------
\* Evaluate and its helpers (src/unnamed/part_005).

\* realign: [history, state, err, log]
RECURSIVE realign(_, _)
realign(history, subj) ==
    LET w == WalkForward(history) IN
    IF w.err # "nil"
    THEN [history |-> history, state |-> subj.state, err |-> "nil", log |-> <<>>]
    ELSE LET a == ApplyEvent(subj.state, w.event) IN
         IF a.err # "nil"
         THEN [history |-> w.h, state |-> a.state, err |-> a.err,
               log |-> <<CallApply(subj.id, w.event, a.err)>>]
         ELSE IF HasError(a.state)
         THEN [history |-> w.h, state |-> a.state, err |-> "subject has an error",
               log |-> <<CallApply(subj.id, w.event, "nil")>>]
         ELSE LET r == realign(w.h, [id |-> subj.id, state |-> a.state]) IN
              [r EXCEPT !.log = <<CallApply(subj.id, w.event, "nil")>> \o r.log]

\* pushPaths without the slices.Reverse of the paths built
pushPathsPlain(nexts, history, all_paths) ==
    IF Len(nexts) = 1
    THEN [history |-> AppendEvent(history, nexts[1]), queue |-> all_paths]
    ELSE LET ps == [i \in 1..Len(nexts) |-> AppendEvent(history, nexts[i])] IN
         [history |-> ps[Len(ps)], queue |-> all_paths \o SubSeq(ps, 1, Len(ps) - 1)]

\* pushPaths: [history, queue]
pushPaths(nexts, history, all_paths) ==
    IF Len(nexts) = 1
    THEN [history |-> AppendEvent(history, nexts[1]), queue |-> all_paths]
    ELSE LET ps == Reverse([i \in 1..Len(nexts) |-> AppendEvent(history, nexts[i])]) IN
         [history |-> ps[Len(ps)], queue |-> all_paths \o SubSeq(ps, 1, Len(ps) - 1)]

\* executeUntil, lines 156-183, one iteration of the loop:
\* [history, state, queue, err, log]; err = "ErrBreak" stands for the break
executeUntilStep(all_paths, subj, history) ==
    LET n == NextEvents(subj.state) IN
    IF n.err # "nil"
    THEN [history |-> history, state |-> subj.state, queue |-> all_paths, err |-> n.err,
          log |-> <<CallNext(subj.id, n.err)>>]
    ELSE IF Len(n.events) = 0
    THEN [history |-> history, state |-> subj.state, queue |-> all_paths,
          err |-> "ErrBreak", log |-> <<CallNext(subj.id, "nil")>>]
    ELSE LET pp == pushPaths(n.events, history, all_paths) IN
         IF HasError(subj.state)
         THEN [history |-> pp.history, state |-> subj.state, queue |-> pp.queue,
               err |-> "ErrBreak", log |-> <<CallNext(subj.id, "nil")>>]
         ELSE LET w == WalkForward(pp.history)
                  a == ApplyEvent(subj.state, w.event)
              IN [history |-> w.h, state |-> a.state, queue |-> pp.queue,
                  err |-> IF a.err # "nil" THEN a.err
                          ELSE IF HasError(a.state) THEN "ErrBreak" ELSE "nil",
                  log |-> <<CallNext(subj.id, "nil"), CallApply(subj.id, w.event, a.err)>>]

\* Evaluate, lines 219-226: the seed
EvalSeed ==
    /\ pc = "start"
    /\ cfg.impl = "Evaluate"
    /\ paths' = Enqueue(paths, EmptyHistory)
    /\ pushLog' = pushLog \o Timelines(Added(paths, paths'))
    /\ pc' = "pop"
    /\ UNCHANGED <<cfg, top, subject, nsubj, invalids, idx, calls, popLog, ended>>
    /\ UNCHANGED consumer
    /\ UNCHANGED store
    /\ UNCHANGED side

\* Evaluate, lines 229-232: the loop condition
EvalIsEmpty ==
    /\ pc = "pop"
    /\ cfg.impl = "Evaluate"
    /\ pc' = IF IsEmpty(paths) THEN "flush" ELSE "init"
    /\ UNCHANGED <<cfg, paths, top, subject, nsubj, invalids, idx, calls, pushLog,
                   popLog, ended>>
    /\ UNCHANGED consumer
    /\ UNCHANGED store
    /\ UNCHANGED side

\* Evaluate, lines 234-251: a fresh Subject
EvalInit ==
    /\ pc = "init"
    /\ cfg.impl = "Evaluate"
    /\ LET i == initFn(nsubj + 1) IN
       /\ nsubj' = nsubj + 1
       /\ subject' = i.subject
       /\ calls' = Append(calls, CallInit(nsubj + 1, i.err))
       /\ IF i.err # "nil"
          THEN Fatal(NewResult(top, i.subject, i.err))
          ELSE IF IsNil(i.subject)
          THEN Fatal(NewResult(top, i.subject, "subject is nil"))
          ELSE /\ pc' = "align"
               /\ UNCHANGED consumer
    /\ UNCHANGED <<cfg, paths, top, invalids, idx, pushLog, popLog, ended>>
    /\ UNCHANGED store
    /\ UNCHANGED side

\* executeUntil, lines 148-154, and Evaluate's lines 253-261 on its error
EvalRealign ==
    /\ pc = "align"
    /\ cfg.impl = "Evaluate"
    /\ LET d == Dequeue(paths)
           r == realign(d.elem, subject)
       IN /\ paths' = d.queue
          /\ popLog' = Append(popLog, PopEntry(d.elem, paths))
          /\ top' = r.history
          /\ subject' = [subject EXCEPT !.state = r.state]
          /\ calls' = calls \o r.log
          /\ IF r.err # "nil"
             THEN Fatal(NewResult(r.history, [subject EXCEPT !.state = r.state], r.err))
             ELSE /\ pc' = "step"
                  /\ UNCHANGED consumer
    /\ UNCHANGED <<cfg, nsubj, invalids, idx, pushLog, ended>>
    /\ UNCHANGED store
    /\ UNCHANGED side

\* executeUntil's loop, and Evaluate's lines 253-261 on its error. The
\* timeline is capped at MaxLen events.
EvalStep ==
    /\ pc = "step"
    /\ cfg.impl = "Evaluate"
    /\ LET r == executeUntilStep(paths, subject, top) IN
       /\ Len(r.history.timeline) <= MaxLen
       /\ top' = r.history
       /\ subject' = [subject EXCEPT !.state = r.state]
       /\ paths' = r.queue
       /\ pushLog' = pushLog \o Timelines(Added(paths, r.queue))
       /\ calls' = calls \o r.log
       /\ IF r.err = "ErrBreak"
          THEN /\ pc' = "classify"
               /\ UNCHANGED consumer
          ELSE IF r.err # "nil"
          THEN Fatal(NewResult(r.history, [subject EXCEPT !.state = r.state], r.err))
          ELSE /\ pc' = "step"
               /\ UNCHANGED consumer
    /\ UNCHANGED <<cfg, nsubj, invalids, idx, popLog, ended>>
    /\ UNCHANGED store
    /\ UNCHANGED side

\* Evaluate, lines 255-272: the Pair of a terminated path
EvalClassify ==
    /\ pc = "classify"
    /\ cfg.impl = "Evaluate"
    /\ ended' = Append(ended, EndEntry(top, subject))
    /\ LET pair == NewResult(top, subject, "nil") IN
       IF HasError(subject.state)
       THEN /\ invalids' = Append(invalids, pair)
            /\ pc' = "pop"
            /\ UNCHANGED consumer
       ELSE /\ \E cont \in BOOLEAN : Yield(pair, cont)
            /\ pc' = IF stopped' THEN "done" ELSE "pop"
            /\ UNCHANGED invalids
    /\ UNCHANGED <<cfg, paths, top, subject, nsubj, idx, calls, pushLog, popLog>>
    /\ UNCHANGED store
    /\ UNCHANGED side

\* Evaluate, lines 275-280: the buffered invalid Pairs
EvalFlush ==
    /\ pc = "flush"
    /\ cfg.impl = "Evaluate"
    /\ IF idx > Len(invalids)
       THEN /\ pc' = "done"
            /\ UNCHANGED idx
            /\ UNCHANGED consumer
       ELSE /\ \E cont \in BOOLEAN : Yield(invalids[idx], cont)
            /\ idx' = idx + 1
            /\ pc' = IF stopped' THEN "done" ELSE "flush"
    /\ UNCHANGED <<cfg, paths, top, subject, nsubj, invalids, calls, pushLog,
                   popLog, ended>>
    /\ UNCHANGED store
    /\ UNCHANGED side

----------------------------------------------------------------------------
\* The storage of History values: Go slices over backing arrays. A slice is
\* [arr, len, cap], arr the number of its backing array in mem (0: nil); mem
\* holds each array as the sequence of its cap cells. A History value in pool
\* is [h, s]: h as the engine sees it, s the slice that is its timeline field.

NilSlice == [arr |-> 0, len |-> 0, cap |-> 0]

\* the elements of the slice s
ReadSlice(m, s) == [i \in 1..s.len |-> m[s.arr][i]]

\* make([]E, n, c): [mem, slice]
MakeSlice(m, n, c) ==
    [mem |-> Append(m, [i \in 1..c |-> 0]),
     slice |-> [arr |-> Len(m) + 1, len |-> n, cap |-> c]]

\* copy(dst, src): the memory afterwards
CopySlice(m, dst, src) ==
    IF dst.len = 0 \/ src.len = 0 THEN m
    ELSE [m EXCEPT ![dst.arr] =
            [i \in 1..dst.cap |->
                IF i <= dst.len /\ i <= src.len THEN m[src.arr][i] ELSE m[dst.arr][i]]]

\* append(s, e): [mem, slice]. Within the capacity the element is written in
\* place; otherwise a new array is allocated, of the needed length plus
\* extra cells (the capacity append chooses is not specified).
AppendSlice(m, s, e, extra) ==
    IF s.len < s.cap
    THEN [mem |-> [m EXCEPT ![s.arr][s.len + 1] = e],
          slice |-> [arr |-> s.arr, len |-> s.len + 1, cap |-> s.cap]]
    ELSE LET mk == MakeSlice(m, s.len + 1, s.len + 1 + extra)
             cp == CopySlice(mk.mem, mk.slice, s)
         IN [mem |-> [cp EXCEPT ![mk.slice.arr][s.len + 1] = e], slice |-> mk.slice]

\* TimelineOf returning the timeline field itself
shareTimeline(m, s) == [mem |-> m, slice |-> s]

\* TimelineOf, lines 28-35, and History.Timeline: [mem, slice]
copyTimeline(m, s) ==
    IF s.len = 0
    THEN [mem |-> m, slice |-> NilSlice]
    ELSE LET mk == MakeSlice(m, s.len, s.len) IN
         [mem |-> CopySlice(mk.mem, mk.slice, s), slice |-> mk.slice]

\* AppendEvent appending to the timeline field itself
appendTimelineNoCopy(m, s, event, extra) == AppendSlice(m, s, event, extra)

\* AppendEvent of history.go, lines 61-68: [mem, slice]
appendTimeline(m, s, event, extra) ==
    LET c == copyTimeline(m, s) IN AppendSlice(c.mem, c.slice, event, extra)

\* History.AppendEvent of emulate.go, lines 214-221: [mem, slice]
appendTimelineCap(m, s, event, extra) ==
    IF s.len = 0
    THEN AppendSlice(m, NilSlice, event, extra)
    ELSE LET mk == MakeSlice(m, s.len, s.len + 1) IN
         AppendSlice(CopySlice(mk.mem, mk.slice, s), mk.slice, event, extra)

\* the revisions of History: the functions of history.go and the methods of
\* emulate.go
Revisions == {"history.go", "emulate.go"}

Events == {0, 1}

\* the ghost of the latest operation: the History it was applied to, what it
\* returned, and the events WalkForward has returned since the latest Restart
\* (fresh: nothing but WalkForward and AppendEvent has been applied since)
NoOp ==
    [op |-> "none", before |-> EmptyHistory, event |-> -1, err |-> "nil",
     fresh |-> FALSE, since |-> <<>>]

----------------------------------------------------------------------------
\* One History value (top) under the operations of history.go and emulate.go.

\* h = AppendEvent(h, e)
HistAppendEvent ==
    /\ Len(top.timeline) < MaxTimeline
    /\ \E e \in Events :
          /\ top' = AppendEvent(top, e)
          /\ last' = [last EXCEPT !.op = "AppendEvent", !.before = top,
                                  !.event = e, !.err = "nil"]
    /\ UNCHANGED <<cfg, pc, paths, subject, nsubj, invalids, idx, yielded, calls,
                   pushLog, popLog, ended, stopped, acc, ret>>
    /\ UNCHANGED <<pool, mem, views>>
    /\ UNCHANGED side

\* event, err := WalkForward(&h)
HistWalkForward ==
    /\ LET w == WalkForward(top) IN
       /\ top' = w.h
       /\ last' = [last EXCEPT !.op = "WalkForward", !.before = top,
                               !.event = w.event, !.err = w.err,
                               !.since = IF w.err = "nil" THEN Append(@, w.event) ELSE @]
    /\ UNCHANGED <<cfg, pc, paths, subject, nsubj, invalids, idx, yielded, calls,
                   pushLog, popLog, ended, stopped, acc, ret>>
    /\ UNCHANGED <<pool, mem, views>>
    /\ UNCHANGED side

\* event, err := WalkBackward(&h)
HistWalkBackward ==
    /\ LET w == WalkBackward(top) IN
       /\ top' = w.h
       /\ last' = [op |-> "WalkBackward", before |-> top, event |-> w.event,
                   err |-> w.err, fresh |-> FALSE, since |-> <<>>]
    /\ UNCHANGED <<cfg, pc, paths, subject, nsubj, invalids, idx, yielded, calls,
                   pushLog, popLog, ended, stopped, acc, ret>>
    /\ UNCHANGED <<pool, mem, views>>
    /\ UNCHANGED side

\* h = Restart(h), h.Restart()
HistRestart ==
    /\ top' = Restart(top)
    /\ last' = [op |-> "Restart", before |-> top, event |-> -1, err |-> "nil",
                fresh |-> TRUE, since |-> <<>>]
    /\ UNCHANGED <<cfg, pc, paths, subject, nsubj, invalids, idx, yielded, calls,
                   pushLog, popLog, ended, stopped, acc, ret>>
    /\ UNCHANGED <<pool, mem, views>>
    /\ UNCHANGED side

----------------------------------------------------------------------------
\* History values and the slices handed out, over their backing arrays.

\* h2 := AppendEvent(h1, e), h2 := h1.AppendEvent(e)
StoreAppendEvent ==
    /\ Len(pool) < MaxHist
    /\ \E i \in 1..Len(pool), e \in Events, rev \in Revisions, extra \in 0..1 :
          LET r == IF rev = "history.go"
                   THEN appendTimeline(mem, pool[i].s, e, extra)
                   ELSE appendTimelineCap(mem, pool[i].s, e, extra)
          IN /\ Len(r.mem) <= MaxArrays
             /\ pool' = Append(pool, [h |-> AppendEvent(pool[i].h, e), s |-> r.slice,
                                      by |-> "AppendEvent", from |-> i])
             /\ mem' = r.mem
             /\ last' = [last EXCEPT !.op = "AppendEvent", !.before = pool[i].h,
                                     !.event = e]
    /\ UNCHANGED views
    /\ UNCHANGED engine
    /\ UNCHANGED side

\* h2 := Restart(h1) of history.go, which copies the timeline
StoreRestart ==
    /\ Len(pool) < MaxHist
    /\ \E i \in 1..Len(pool) :
          LET r == copyTimeline(mem, pool[i].s) IN
          /\ Len(r.mem) <= MaxArrays
          /\ pool' = Append(pool, [h |-> Restart(pool[i].h), s |-> r.slice,
                                   by |-> "Restart", from |-> i])
          /\ mem' = r.mem
          /\ last' = [last EXCEPT !.op = "Restart", !.before = pool[i].h, !.event = -1]
    /\ UNCHANGED views
    /\ UNCHANGED engine
    /\ UNCHANGED side

\* t := TimelineOf(h), t := h.Timeline(), and the Timeline field of
\* NewResult(h, subject, err); val is the ghost of what the holder has put
\* into the slice
StoreTimeline ==
    /\ Len(views) < MaxViews
    /\ \E i \in 1..Len(pool) :
          LET r == copyTimeline(mem, pool[i].s) IN
          /\ Len(r.mem) <= MaxArrays
          /\ views' = Append(views, [s |-> r.slice, val |-> TimelineOf(pool[i].h), of |-> i])
          /\ mem' = r.mem
          /\ last' = [last EXCEPT !.op = "Timeline", !.before = pool[i].h, !.event = -1]
    /\ UNCHANGED pool
    /\ UNCHANGED engine
    /\ UNCHANGED side

\* t[j] = x by the holder of a slice handed out
StoreWrite ==
    /\ \E v \in 1..Len(views), x \in Events :
          \E j \in 1..views[v].s.len :
             /\ views[v].val[j] # x
             /\ mem' = [mem EXCEPT ![views[v].s.arr][j] = x]
             /\ views' = [views EXCEPT ![v].val[j] = x]
             /\ last' = [last EXCEPT !.op = "Write", !.before = EmptyHistory, !.event = x]
    /\ UNCHANGED pool
    /\ UNCHANGED engine
    /\ UNCHANGED side

----------------------------------------------------------------------------
\* SubjectOf (src/unnamed/part_002) and ErrInvalidType (src/unnamed/part_004).
\* A Go value held in an interface is its dynamic type and its content; the
\* pointer types *A and *B and the struct type C implement Subject, and *A
\* alone implements the wider interface J. The content 0 of a pointer type is
\* the nil pointer.

MaxResultLen == 1

\* the nil interface value
NilValue == [type |-> "nil", id |-> 0]

ConcreteTypes == {"*A", "*B", "C"}

InterfaceTypes == {"Subject", "J"}

Implements(t, i) == i = "Subject" \/ (i = "J" /\ t = "*A")

\* zero := *new(S), converted to any when it is passed on
Zero(S) == IF S \in InterfaceTypes THEN NilValue ELSE [type |-> S, id |-> 0]

\* result.Subject.(S)
TypeAssert(v, S) ==
    IF S \in InterfaceTypes THEN Implements(v.type, S) ELSE v.type = S

TypeOf(v) == IF v = NilValue THEN "nil" ELSE v.type

\* the nil error
NilErr == [nil |-> TRUE, Want |-> NilValue, Got |-> NilValue]

\* NewErrInvalidType with its two parameters taken in the other order
NewErrInvalidTypeSwapped(got, want) == [nil |-> FALSE, Want |-> got, Got |-> want]

NewErrInvalidType(got, want) == [nil |-> FALSE, Want |-> want, Got |-> got]

\* ErrInvalidType.Error: the parts of the message, in order
Error(e) == <<"want ", TypeOf(e.Want), ", got ", TypeOf(e.Got)>>

\* SubjectOf[S]: [s, err]
SubjectOf(S, result) ==
    LET zero == Zero(S)
        stored == result.Subject
    IN IF stored = NilValue
       THEN [s |-> zero, err |-> NewErrInvalidType(NilValue, zero)]
       ELSE IF ~TypeAssert(stored, S)
       THEN [s |-> zero, err |-> NewErrInvalidType(stored, zero)]
       ELSE [s |-> stored, err |-> NilErr]

\* the Results handed to SubjectOf
Subjects == {NilValue} \cup {[type |-> t, id |-> n] : t \in ConcreteTypes, n \in 0..1}

CastResults ==
    {[Timeline |-> t, Subject |-> v, Error |-> e] :
        t \in UNION {[1..n -> 0..1] : n \in 0..MaxResultLen},
        v \in Subjects, e \in {"nil", "error"}}

NoCast ==
    [S |-> "Subject", result |-> [Timeline |-> <<>>, Subject |-> NilValue, Error |-> "nil"],
     called |-> FALSE, s |-> NilValue, err |-> NilErr]

\* s, err := SubjectOf[S](result)
CallSubjectOf ==
    /\ ~downcast.called
    /\ LET r == SubjectOf(downcast.S, downcast.result) IN
       downcast' = [downcast EXCEPT !.called = TRUE, !.s = r.s, !.err = r.err]
    /\ UNCHANGED engine
    /\ UNCHANGED aux
    /\ UNCHANGED store
    /\ UNCHANGED batch

----------------------------------------------------------------------------
\* Parallel Evaluate and resultListener (src/parallel_result/resulter.go),
\* with the Pair of src/result/internal/pair.go. The batch function is the
\* one MakeBatchFn builds without a middle function. ExecuteBatch and Split
\* are not part of the repository snapshot: ExecuteBatch runs one task per
\* element and returns once all of them have finished, with an error when
\* one of them failed (section 5 of the design); Split divides results into
\* those without and those with an error.

MaxElems == 3

\* what evalFn does for an element
Outcomes == {"error", "none", "valid", "invalid", "mixed"}

\* the j-th result of the element numbered i
Res(i, j, bad) == [of |-> i, no |-> j, HasErr |-> bad]

\* evalFn(elem): [results, err]
evalFn(i) ==
    CASE elements[i] = "error"   -> [results |-> <<>>, err |-> "error"]
      [] elements[i] = "none"    -> [results |-> <<>>, err |-> "nil"]
      [] elements[i] = "valid"   -> [results |-> <<Res(i, 1, FALSE)>>, err |-> "nil"]
      [] elements[i] = "invalid" -> [results |-> <<Res(i, 1, TRUE)>>, err |-> "nil"]
      [] elements[i] = "mixed"   -> [results |-> <<Res(i, 1, TRUE), Res(i, 2, FALSE)>>,
                                  err |-> "nil"]

\* Split: [valids, invalids]
Split(inputs) ==
    [valids |-> SelectSeq(inputs, LAMBDA r : ~r.HasErr),
     invalids |-> SelectSeq(inputs, LAMBDA r : r.HasErr)]

NewPair(inputs) ==
    LET sp == Split(inputs) IN
    IF Len(sp.valids) > 0
    THEN [Results |-> sp.valids, IsValid |-> TRUE]
    ELSE [Results |-> sp.invalids, IsValid |-> FALSE]

\* the slices of the listener before the call
NoSols == [nil |-> TRUE, elems |-> <<>>]

NoOut == [results |-> <<>>, err |-> "nil"]

\* resultListener, lines 145-155, for one Pair: [valid_sols, invalid_sols]
resultListener(p, sols, non_sols) ==
    IF p.IsValid
    THEN [valid_sols |-> sols \o p.Results, invalid_sols |-> NoSols]
    ELSE IF ~non_sols.nil
    THEN [valid_sols |-> sols,
          invalid_sols |-> [nil |-> FALSE, elems |-> non_sols.elems \o p.Results]]
    ELSE [valid_sols |-> sols, invalid_sols |-> non_sols]

\* applyFn, lines 180-196: no element, or the channel, the wait group, the
\* listener and the tasks
EvaluateStart ==
    /\ at = "start"
    /\ IF Len(elements) = 0
       THEN /\ at' = "returned"
            /\ out' = NoOut
            /\ UNCHANGED <<tasks, ch, closed, valid_sols, invalid_sols, wg>>
       ELSE /\ at' = "batch"
            /\ ch' = <<>>
            /\ closed' = FALSE
            /\ wg' = 1
            /\ valid_sols' = <<>>
            /\ invalid_sols' = [nil |-> FALSE, elems |-> <<>>]
            /\ tasks' = [i \in 1..Len(elements) |-> "ready"]
            /\ UNCHANGED out
    /\ UNCHANGED <<elements, seen>>
    /\ UNCHANGED <<downcast>>
    /\ UNCHANGED engine
    /\ UNCHANGED aux
    /\ UNCHANGED store

\* batchFn, lines 71-84, for the element i; the send waits for room
batchFn(i) ==
    /\ at = "batch"
    /\ tasks[i] = "ready"
    /\ LET r == evalFn(i) IN
       IF r.err # "nil"
       THEN /\ tasks' = [tasks EXCEPT ![i] = "failed"]
            /\ UNCHANGED ch
       ELSE IF Len(r.results) = 0
       THEN /\ tasks' = [tasks EXCEPT ![i] = "done"]
            /\ UNCHANGED ch
       ELSE /\ Len(ch) < Len(elements)
            /\ ch' = Append(ch, NewPair(r.results))
            /\ tasks' = [tasks EXCEPT ![i] = "done"]
    /\ UNCHANGED <<elements, closed, valid_sols, invalid_sols, wg, at, out, seen>>
    /\ UNCHANGED <<downcast>>
    /\ UNCHANGED engine
    /\ UNCHANGED aux
    /\ UNCHANGED store

\* applyFn, lines 198-200: ExecuteBatch has returned, close(ch)
EvaluateClose ==
    /\ at = "batch"
    /\ \A i \in 1..Len(tasks) : tasks[i] # "ready"
    /\ closed' = TRUE
    /\ at' = "wait"
    /\ UNCHANGED <<elements, tasks, ch, valid_sols, invalid_sols, wg, out, seen>>
    /\ UNCHANGED <<downcast>>
    /\ UNCHANGED engine
    /\ UNCHANGED aux
    /\ UNCHANGED store

\* the listener goroutine: one turn of for p := range ch
ListenerReceive ==
    /\ wg = 1
    /\ Len(ch) > 0
    /\ LET r == resultListener(Head(ch), valid_sols, invalid_sols) IN
       /\ valid_sols' = r.valid_sols
       /\ invalid_sols' = r.invalid_sols
    /\ seen' = Append(seen, Head(ch))
    /\ ch' = Tail(ch)
    /\ UNCHANGED <<elements, tasks, closed, wg, at, out>>
    /\ UNCHANGED <<downcast>>
    /\ UNCHANGED engine
    /\ UNCHANGED aux
    /\ UNCHANGED store

\* the listener goroutine: the channel is closed and drained, wg.Done()
ListenerDone ==
    /\ wg = 1
    /\ Len(ch) = 0
    /\ closed
    /\ wg' = 0
    /\ UNCHANGED <<elements, tasks, ch, closed, valid_sols, invalid_sols, at, out, seen>>
    /\ UNCHANGED <<downcast>>
    /\ UNCHANGED engine
    /\ UNCHANGED aux
    /\ UNCHANGED store

\* the error ExecuteBatch returns
BatchErr == IF \E i \in 1..Len(tasks) : tasks[i] = "failed" THEN "error" ELSE "nil"

\* applyFn, lines 204-210, whatever the wait group says
EvaluateReturnEarly ==
    /\ at = "wait"
    /\ out' = IF BatchErr # "nil"
              THEN [results |-> valid_sols \o invalid_sols.elems, err |-> BatchErr]
              ELSE IF Len(valid_sols) > 0
              THEN [results |-> valid_sols, err |-> "nil"]
              ELSE [results |-> invalid_sols.elems, err |-> "ErrInvalidResult"]
    /\ at' = "returned"
    /\ UNCHANGED <<elements, tasks, ch, closed, valid_sols, invalid_sols, wg, seen>>
    /\ UNCHANGED <<downcast>>
    /\ UNCHANGED engine
    /\ UNCHANGED aux
    /\ UNCHANGED store

\* applyFn, lines 202-210: wg.Wait() and the return
EvaluateReturn ==
    /\ at = "wait"
    /\ wg = 0
    /\ out' = IF BatchErr # "nil"
              THEN [results |-> valid_sols \o invalid_sols.elems, err |-> BatchErr]
              ELSE IF Len(valid_sols) > 0
              THEN [results |-> valid_sols, err |-> "nil"]
              ELSE [results |-> invalid_sols.elems, err |-> "ErrInvalidResult"]
    /\ at' = "returned"
    /\ UNCHANGED <<elements, tasks, ch, closed, valid_sols, invalid_sols, wg, seen>>
    /\ UNCHANGED <<downcast>>
    /\ UNCHANGED engine
    /\ UNCHANGED aux
    /\ UNCHANGED store

\* no call of the function returned by parallel Evaluate is in progress
BatchIdle ==
    /\ tasks = <<>>
    /\ ch = <<>>
    /\ closed = FALSE
    /\ valid_sols = <<>>
    /\ invalid_sols = NoSols
    /\ wg = 0
    /\ at = "start"
    /\ out = NoOut
    /\ seen = <<>>

----------------------------------------------------------------------------
\* The data structures of the library, each used on its own through its
\* exported methods. MaxCalls bounds the number of calls made on one, and
\* Elems are the elements given to it.

MaxCalls == 5

Elems == {"a", "b"}

Call(op, elem) == [op |-> op, elem |-> elem]

\* Accumulator.IsValid
IsValid(a) == a.is_valid

CallAddValid ==
    /\ Len(trace) < MaxCalls
    /\ \E elem \in Elems :
          /\ accumulator' = AddValid(accumulator, elem)
          /\ trace' = Append(trace, Call("AddValid", elem))
    /\ UNCHANGED <<engine, store, downcast, batch, queue, eos, chan, exec, runs>>

CallAddInvalid ==
    /\ Len(trace) < MaxCalls
    /\ \E elem \in Elems :
          /\ accumulator' = AddInvalid(accumulator, elem)
          /\ trace' = Append(trace, Call("AddInvalid", elem))
    /\ UNCHANGED <<engine, store, downcast, batch, queue, eos, chan, exec, runs>>

CallReset ==
    /\ Len(trace) < MaxCalls
    /\ accumulator' = Reset(accumulator)
    /\ trace' = Append(trace, Call("Reset", "none"))
    /\ UNCHANGED <<engine, store, downcast, batch, queue, eos, chan, exec, runs>>

\* a call with what it returned
Returned(op, elem, err) == [op |-> op, elem |-> elem, err |-> err]

CallEnqueue ==
    /\ Len(trace) < MaxCalls
    /\ \E e \in Elems :
          /\ queue' = Enqueue(queue, e)
          /\ trace' = Append(trace, Returned("Enqueue", e, "nil"))
    /\ UNCHANGED <<engine, store, downcast, batch, accumulator, eos, chan, exec, runs>>

CallDequeue ==
    /\ Len(trace) < MaxCalls
    /\ LET r == Dequeue(queue) IN
       /\ queue' = r.queue
       /\ trace' = Append(trace, Returned("Dequeue", r.elem, r.err))
    /\ UNCHANGED <<engine, store, downcast, batch, accumulator, eos, chan, exec, runs>>

\* rank.Rank: the elements added with their ranks, in the order added. A nil
\* *Rank has nil = TRUE.
Ranks == {0, 1}

NilRank == [nil |-> TRUE, elems |-> <<>>]

NewRank == [nil |-> FALSE, elems |-> <<>>]

RankAdd(r, rank, elem) == [r EXCEPT !.elems = Append(r.elems, [rank |-> rank, elem |-> elem])]

RankIsEmpty(r) == Len(r.elems) = 0

\* the elements in descending order of rank
RankBuild(r) ==
    LET of(k) == SelectSeq(r.elems, LAMBDA x : x.rank = k)
        hi == of(1)
        lo == of(0)
    IN [i \in 1..Len(hi) |-> hi[i].elem] \o [i \in 1..Len(lo) |-> lo[i].elem]

NewErrRorSol == [errs |-> NewRank, sols |-> NilRank]

EosReset(e) ==
    [errs |-> IF ~e.errs.nil THEN NewRank ELSE e.errs,
     sols |-> IF ~e.sols.nil THEN NilRank ELSE e.sols]

EosAddSol(e, rank, elem) ==
    [errs |-> NilRank,
     sols |-> RankAdd(IF e.sols.nil THEN NewRank ELSE e.sols, rank, elem)]

\* err = "nil" is the nil error
EosAddErr(e, rank, err) ==
    IF err = "nil" THEN e
    ELSE IF e.errs.nil THEN e
    ELSE [e EXCEPT !.errs = RankAdd(e.errs, rank, err)]

EosHasError(e) == ~e.errs.nil /\ ~RankIsEmpty(e.errs)

\* Errors: [nil, elems]
EosErrors(e) ==
    IF e.errs.nil THEN [nil |-> TRUE, elems |-> <<>>]
    ELSE [nil |-> FALSE, elems |-> RankBuild(e.errs)]

Ranked(op, rank, elem) == [op |-> op, rank |-> rank, elem |-> elem]

CallEosAddSol ==
    /\ Len(trace) < MaxCalls
    /\ \E rank \in Ranks :
          /\ eos' = EosAddSol(eos, rank, "a")
          /\ trace' = Append(trace, Ranked("AddSol", rank, "a"))
    /\ UNCHANGED <<engine, store, downcast, batch, accumulator, queue, chan, exec, runs>>

CallEosAddErr ==
    /\ Len(trace) < MaxCalls
    /\ \E rank \in Ranks, err \in {"nil", "err"} :
          /\ eos' = EosAddErr(eos, rank, err)
          /\ trace' = Append(trace, Ranked("AddErr", rank, err))
    /\ UNCHANGED <<engine, store, downcast, batch, accumulator, queue, chan, exec, runs>>

CallEosReset ==
    /\ Len(trace) < MaxCalls
    /\ eos' = EosReset(eos)
    /\ trace' = Append(trace, Ranked("Reset", 0, "none"))
    /\ UNCHANGED <<engine, store, downcast, batch, accumulator, queue, chan, exec, runs>>

\* A channel: nil, or open or closed with the elements buffered in it.
\* Nothing else sends to it or receives from it.
MaxBuf == 4

NilChan == [nil |-> TRUE, closed |-> FALSE, buf |-> <<>>]

Chans ==
    {NilChan} \cup
    {[nil |-> FALSE, closed |-> c, buf |-> b] :
        c \in BOOLEAN, b \in UNION {[1..n -> Elems] : n \in 0..MaxBuf}}

\* close(ch): [chan, err], err = "panic" for the close of a closed channel
close(c) ==
    IF c.closed
    THEN [chan |-> c, err |-> "panic"]
    ELSE [chan |-> [c EXCEPT !.closed = TRUE], err |-> "nil"]

\* _, ok := <-ch in a select with a default: [chan, ok, taken], taken false
\* when the default case runs
receive(c) ==
    IF Len(c.buf) > 0
    THEN [chan |-> [c EXCEPT !.buf = Tail(c.buf)], ok |-> TRUE, taken |-> TRUE]
    ELSE IF c.closed
    THEN [chan |-> c, ok |-> FALSE, taken |-> TRUE]
    ELSE [chan |-> c, ok |-> FALSE, taken |-> FALSE]

\* Close: [chan, err]
Close(c) ==
    IF c.nil
    THEN [chan |-> c, err |-> "nil"]
    ELSE LET r == receive(c) IN
         IF r.taken /\ ~r.ok
         THEN [chan |-> r.chan, err |-> "nil"]
         ELSE close(r.chan)

\* a panic ends the program
CallClose ==
    /\ Len(trace) < MaxCalls
    /\ \A i \in 1..Len(trace) : trace[i].err # "panic"
    /\ LET r == Close(chan) IN
       /\ chan' = r.chan
       /\ trace' = Append(trace, Returned("Close", chan, r.err))
    /\ UNCHANGED <<engine, store, downcast, batch, accumulator, queue, eos, exec, runs>>

----------------------------------------------------------------------------
\* The matchers of package matcher. A matcher is a record with its kind and
\* its fields; an error is "nil", "ErrMatchDone", "ErrNotAsExpected" or
\* "joined" (errors.Join of one error or more). A method that changes its
\* receiver returns the new receiver in m.

MaxWord == 2

MaxInput == 3

Single(elem) == [kind |-> "single", target |-> elem, is_done |-> FALSE]

singleClose(m) == IF ~m.is_done THEN "ErrNotAsExpected" ELSE "nil"

singleMatch(m, elem) ==
    IF m.is_done THEN [m |-> m, err |-> "ErrMatchDone"]
    ELSE IF elem # m.target THEN [m |-> m, err |-> "ErrNotAsExpected"]
    ELSE [m |-> [m EXCEPT !.is_done = TRUE], err |-> "nil"]

singleReset(m) == [m EXCEPT !.is_done = FALSE]

singleMatched(m) == IF ~m.is_done THEN <<>> ELSE <<m.target>>

\* matchSlice: pos counts the elements of chars matched
sliceClose(w) == IF w.pos < Len(w.chars) THEN "ErrNotAsExpected" ELSE "nil"

\* matchSlice.Match going on after the last element of the literal
sliceMatchOver(w, char) ==
    IF w.pos < Len(w.chars) /\ w.chars[w.pos + 1] # char
    THEN [m |-> w, err |-> "ErrNotAsExpected"]
    ELSE [m |-> [w EXCEPT !.pos = w.pos + 1, !.matched = Append(w.matched, char)],
          err |-> "nil"]

sliceMatch(w, char) ==
    IF w.pos >= Len(w.chars) THEN [m |-> w, err |-> "ErrMatchDone"]
    ELSE IF w.chars[w.pos + 1] # char THEN [m |-> w, err |-> "ErrNotAsExpected"]
    ELSE [m |-> [w EXCEPT !.pos = w.pos + 1, !.matched = Append(w.matched, char)],
          err |-> "nil"]

sliceReset(w) == [w EXCEPT !.pos = 0, !.matched = <<>>]

sliceMatched(m) == m.matched

\* Slice, for a slice that is not empty
Slice(slice) ==
    IF Len(slice) = 1 THEN Single(slice[1])
    ELSE [kind |-> "slice", matched |-> <<>>, chars |-> slice, pos |-> 0]

\* the methods of the matchers an Or is made of
leafMatch(m, elem) == IF m.kind = "single" THEN singleMatch(m, elem) ELSE sliceMatch(m, elem)

leafClose(m) == IF m.kind = "single" THEN singleClose(m) ELSE sliceClose(m)

leafReset(m) == IF m.kind = "single" THEN singleReset(m) ELSE sliceReset(m)

leafMatched(m) == IF m.kind = "single" THEN singleMatched(m) ELSE sliceMatched(m)

\* errors.Join
Join(errs) == IF Len(errs) = 0 THEN "nil" ELSE "joined"

\* the indices n-1, ..., 0 of n matchers
AllIndices(n) == [i \in 1..n |-> n - i]

\* Or, for two non-nil matchers or more
Or(matchers) ==
    [kind |-> "or", matched |-> <<>>, matchers |-> matchers,
     indices |-> AllIndices(Len(matchers)), sol |-> -1, errs |-> <<>>]

\* the loop of matchOr.Match from the k-th index on, kept the indices kept
\* and errs the errors gathered so far
RECURSIVE orMatchLoop(_, _, _, _, _)
orMatchLoop(m, elem, k, kept, errs) ==
    IF k > Len(m.indices)
    THEN [m EXCEPT !.indices = kept, !.errs = IF Len(errs) > 0 THEN errs ELSE m.errs]
    ELSE LET ix == m.indices[k]
             r == leafMatch(m.matchers[ix + 1], elem)
             m2 == [m EXCEPT !.matchers[ix + 1] = r.m]
         IN IF r.err = "nil"
            THEN orMatchLoop(m2, elem, k + 1, Append(kept, ix), errs)
            ELSE IF r.err = "ErrMatchDone"
            THEN orMatchLoop([m2 EXCEPT !.matched = leafMatched(r.m), !.sol = ix],
                             elem, k + 1, kept, errs)
            ELSE IF m2.sol # -1
            THEN orMatchLoop(m2, elem, k + 1, kept, Append(errs, r.err))
            ELSE orMatchLoop(m2, elem, k + 1, kept, errs)

\* matchOr.Match with the matchers tried in the order given
orMatchForward(m, elem) ==
    IF Len(m.indices) = 0
    THEN [m |-> m, err |-> IF m.sol = -1 THEN Join(m.errs) ELSE "ErrMatchDone"]
    ELSE LET r == orMatchLoop([m EXCEPT !.indices = Reverse(m.indices)], elem, 1, <<>>, <<>>)
         IN [m |-> [r EXCEPT !.indices = Reverse(r.indices)], err |-> "nil"]

orMatch(m, elem) ==
    IF Len(m.indices) = 0
    THEN [m |-> m, err |-> IF m.sol = -1 THEN Join(m.errs) ELSE "ErrMatchDone"]
    ELSE [m |-> orMatchLoop(m, elem, 1, <<>>, <<>>), err |-> "nil"]

\* the loop of matchOr.Close
RECURSIVE orCloseLoop(_, _, _)
orCloseLoop(m, k, errs) ==
    IF k > Len(m.indices)
    THEN [m EXCEPT !.indices = <<>>, !.errs = IF Len(errs) > 0 THEN errs ELSE m.errs]
    ELSE LET ix == m.indices[k]
             err == leafClose(m.matchers[ix + 1])
         IN IF err # "nil"
            THEN orCloseLoop(m, k + 1, Append(errs, err))
            ELSE orCloseLoop([m EXCEPT !.matched = leafMatched(m.matchers[ix + 1]),
                                       !.sol = ix], k + 1, errs)

\* matchOr.Close: [m, err]
orClose(m) ==
    IF Len(m.indices) = 0
    THEN [m |-> m, err |-> IF m.sol = -1 THEN Join(m.errs) ELSE "nil"]
    ELSE [m |-> orCloseLoop(m, 1, <<>>), err |-> "nil"]

orReset(m) ==
    [m EXCEPT !.indices = AllIndices(Len(m.matchers)),
              !.matchers = [i \in 1..Len(m.matchers) |-> leafReset(m.matchers[i])],
              !.sol = -1, !.errs = <<>>, !.matched = <<>>]

orMatched(m) == m.matched

\* the methods of the interface Matcher
MatcherMatch(m, elem) == IF m.kind = "or" THEN orMatch(m, elem) ELSE leafMatch(m, elem)

MatcherClose(m) == IF m.kind = "or" THEN orClose(m) ELSE [m |-> m, err |-> leafClose(m)]

MatcherReset(m) == IF m.kind = "or" THEN orReset(m) ELSE leafReset(m)

MatcherMatched(m) == IF m.kind = "or" THEN orMatched(m) ELSE leafMatched(m)

\* the literals, the matchers made of them and the inputs given to Execute
Words == UNION {[1..n -> Elems] : n \in 1..MaxWord}

Matchers ==
    {Slice(w) : w \in Words} \cup {Or(<<Slice(v), Slice(w)>>) : v \in Words, w \in Words}

Inputs == UNION {[1..n -> Elems] : n \in 0..MaxInput}

\* Execute: m the matcher, at the position in the function, ret what it
\* returned, sol the solution of an Or when it returned
NoExec ==
    [m |-> Single("a"), slice |-> <<>>, i |-> 0, early_exit |-> FALSE, at |-> "idle",
     ret |-> [matched |-> <<>>, err |-> "nil"], sol |-> -1]

\* return matched, err with the deferred m.Reset()
ExecuteRet(m, err) ==
    exec' = [exec EXCEPT !.m = MatcherReset(m), !.at = "returned",
                         !.ret = [matched |-> MatcherMatched(m), err |-> err],
                         !.sol = IF m.kind = "or" THEN m.sol ELSE -1]

MatcherExecuteStart ==
    /\ exec.at = "start"
    /\ IF Len(exec.slice) = 0
       THEN exec' = [exec EXCEPT !.at = "returned"]
       ELSE exec' = [exec EXCEPT !.at = "loop", !.i = 0]
    /\ UNCHANGED <<engine, store, downcast, batch, accumulator, queue, eos, chan, runs, trace>>

MatcherExecuteLoop ==
    /\ exec.at = "loop"
    /\ exec.i < Len(exec.slice)
    /\ ~exec.early_exit
    /\ LET r == MatcherMatch(exec.m, exec.slice[exec.i + 1]) IN
       IF r.err = "nil"
       THEN exec' = [exec EXCEPT !.m = r.m, !.i = exec.i + 1]
       ELSE IF r.err = "ErrMatchDone"
       THEN exec' = [exec EXCEPT !.m = r.m, !.i = exec.i + 1, !.early_exit = TRUE]
       ELSE ExecuteRet(r.m, r.err)
    /\ UNCHANGED <<engine, store, downcast, batch, accumulator, queue, eos, chan, runs, trace>>

MatcherExecuteReturn ==
    /\ exec.at = "loop"
    /\ exec.i >= Len(exec.slice) \/ exec.early_exit
    /\ IF exec.early_exit
       THEN ExecuteRet(exec.m, "nil")
       ELSE LET r == MatcherClose(exec.m) IN ExecuteRet(r.m, r.err)
    /\ UNCHANGED <<engine, store, downcast, batch, accumulator, queue, eos, chan, runs, trace>>

\* none of the data structures used on their own is in use
AuxIdle ==
    /\ accumulator = EmptyAcc
    /\ queue = <<>>
    /\ eos = NewErrRorSol
    /\ chan = NilChan
    /\ exec = NoExec
    /\ runs = <<>>
    /\ trace = <<>>

\* none of the helpers around the engine is in use
SideIdle ==
    /\ downcast = NoCast
    /\ elements = <<>>
    /\ BatchIdle
    /\ AuxIdle


----------------------------------------------------------------------------
\* The Subject family members, revisions and consumers drawn in Init.

Configs ==
    {[impl |-> i, mode |-> m, k |-> k, d |-> d, soft |-> s, fatal |-> f, stuck |-> st] :
        i \in {"apply", "Evaluate"}, m \in {"AsSeq", "Execute"},
        k \in 1..MaxK, d \in 0..MaxDepth,
        s \in SoftRules(MaxK, MaxDepth), f \in FatalRules(MaxK, MaxDepth),
        st \in BOOLEAN}
    \cup
    \* well-behaved Subjects offering one event more, once
    {[impl |-> i, mode |-> m, k |-> MaxK + 1, d |-> 1, soft |-> NoSoft, fatal |-> NoFatal,
      stuck |-> FALSE] :
        i \in {"apply", "Evaluate"}, m \in {"AsSeq", "Execute"}}

WellFormed(c) ==
    /\ c.mode = "Execute" => c.impl = "apply"
    /\ c.soft \in SoftRules(c.k, c.d)
    /\ c.fatal \in FatalRules(c.k, c.d)
    /\ c.stuck => c.soft # NoSoft

Init ==
    /\ cfg \in {c \in Configs : WellFormed(c)}
    /\ pc = "start"
    /\ paths = <<>>
    /\ top = EmptyHistory
    /\ subject = [id |-> 0, state |-> <<>>]
    /\ nsubj = 0
    /\ invalids = <<>>
    /\ idx = 1
    /\ yielded = <<>>
    /\ calls = <<>>
    /\ pushLog = <<>>
    /\ popLog = <<>>
    /\ ended = <<>>
    /\ stopped = FALSE
    /\ acc = EmptyAcc
    /\ ret = NoRet
    /\ pool = <<>>
    /\ mem = <<>>
    /\ views = <<>>
    /\ last = NoOp
    /\ SideIdle

Next ==
    \/ ApplySeed
    \/ ApplyPop
    \/ ApplyInit
    \/ ApplyAlign
    \/ ApplyStep
    \/ ApplyClassify
    \/ ApplyFlush
    \/ ExecuteReturn
    \/ EvalSeed
    \/ EvalIsEmpty
    \/ EvalInit
    \/ EvalRealign
    \/ EvalStep
    \/ EvalClassify
    \/ EvalFlush

Spec == Init /\ [][Next]_vars

\* No run of the engine is in progress.
NoRun ==
    [impl |-> "none", mode |-> "AsSeq", k |-> 1, d |-> 0, soft |-> NoSoft,
     fatal |-> NoFatal, stuck |-> FALSE]

Idle ==
    /\ cfg = NoRun
    /\ pc = "start"
    /\ paths = <<>>
    /\ subject = [id |-> 0, state |-> <<>>]
    /\ nsubj = 0
    /\ invalids = <<>>
    /\ idx = 1
    /\ yielded = <<>>
    /\ calls = <<>>
    /\ pushLog = <<>>
    /\ popLog = <<>>
    /\ ended = <<>>
    /\ stopped = FALSE
    /\ acc = EmptyAcc
    /\ ret = NoRet

\* One History value, from the empty History on.
HistInit ==
    /\ Idle
    /\ top = EmptyHistory
    /\ pool = <<>>
    /\ mem = <<>>
    /\ views = <<>>
    /\ last = NoOp
    /\ SideIdle

HistNext ==
    \/ HistAppendEvent
    \/ HistWalkForward
    \/ HistWalkBackward
    \/ HistRestart

HistSpec == HistInit /\ [][HistNext]_vars

\* The Histories a store starts from: the empty History, and the Histories of
\* one event with the arrow before or after it, held in an array of their own
\* with or without a spare cell (as append leaves it).
StoreStarts ==
    {[h |-> EmptyHistory, s |-> NilSlice, mem |-> <<>>]}
    \cup {[h |-> [timeline |-> <<e>>, arrow |-> a],
           s |-> [arr |-> 1, len |-> 1, cap |-> 1 + extra],
           mem |-> << [i \in 1..(1 + extra) |-> IF i = 1 THEN e ELSE 0] >>] :
             e \in Events, a \in 0..1, extra \in 0..1}

StoreInit ==
    /\ Idle
    /\ top = EmptyHistory
    /\ \E st \in StoreStarts :
          /\ pool = <<[h |-> st.h, s |-> st.s, by |-> "none", from |-> 0]>>
          /\ mem = st.mem
    /\ views = <<>>
    /\ last = NoOp
    /\ SideIdle

StoreNext ==
    \/ StoreAppendEvent
    \/ StoreRestart
    \/ StoreTimeline
    \/ StoreWrite

StoreSpec == StoreInit /\ [][StoreNext]_vars

\* One call of SubjectOf, for every requested type and every Result.
CastInit ==
    /\ Idle
    /\ top = EmptyHistory
    /\ pool = <<>>
    /\ mem = <<>>
    /\ views = <<>>
    /\ last = NoOp
    /\ \E S \in ConcreteTypes \cup InterfaceTypes, r \in CastResults :
          downcast = [NoCast EXCEPT !.S = S, !.result = r]
    /\ elements = <<>>
    /\ BatchIdle
    /\ AuxIdle

CastNext == CallSubjectOf

CastSpec == CastInit /\ [][CastNext]_vars

\* One call of the function returned by parallel Evaluate, for every
\* sequence of up to MaxElems elements.
ParInit ==
    /\ Idle
    /\ top = EmptyHistory
    /\ pool = <<>>
    /\ mem = <<>>
    /\ views = <<>>
    /\ last = NoOp
    /\ downcast = NoCast
    /\ elements \in UNION {[1..n -> Outcomes] : n \in 0..MaxElems}
    /\ BatchIdle
    /\ AuxIdle

ParNext ==
    \/ EvaluateStart
    \/ \E i \in 1..Len(elements) : batchFn(i)
    \/ EvaluateClose
    \/ ListenerReceive
    \/ ListenerDone
    \/ EvaluateReturn

ParSpec == ParInit /\ [][ParNext]_vars

\* the engine, the History values and the helpers are not in use
Unused ==
    /\ Idle
    /\ top = EmptyHistory
    /\ pool = <<>>
    /\ mem = <<>>
    /\ views = <<>>
    /\ last = NoOp
    /\ downcast = NoCast
    /\ elements = <<>>
    /\ BatchIdle

\* An Accumulator used on its own, from var acc Accumulator[E].
AccInit ==
    /\ Unused
    /\ AuxIdle

AccNext ==
    \/ CallAddValid
    \/ CallAddInvalid
    \/ CallReset

AccSpec == AccInit /\ [][AccNext]_vars

\* An internal.Queue used on its own, from var q Queue[E].
QueueInit ==
    /\ Unused
    /\ AuxIdle

QueueNext ==
    \/ CallEnqueue
    \/ CallDequeue

QueueSpec == QueueInit /\ [][QueueNext]_vars

\* An ErrRorSol used on its own, from NewErrRorSol().
EosInit ==
    /\ Unused
    /\ AuxIdle

EosNext ==
    \/ CallEosAddSol
    \/ CallEosAddErr
    \/ CallEosReset

EosSpec == EosInit /\ [][EosNext]_vars

\* Successive calls of common.Close on one channel, in any state at first.
CloseInit ==
    /\ Unused
    /\ accumulator = EmptyAcc
    /\ queue = <<>>
    /\ eos = NewErrRorSol
    /\ chan \in Chans
    /\ exec = NoExec
    /\ runs = <<>>
    /\ trace = <<>>

CloseNext == CallClose

CloseSpec == CloseInit /\ [][CloseNext]_vars

\* Runs of AsSeq and Execute one after the other on the same Evaluator.
MaxRuns == 2

\* AsSeq or Execute is called again once the run before is over: the
\* function of apply starts with locals of its own, the Subject, the
\* consumer and initFn are as in the run before
RunAgain ==
    /\ pc = "done"
    /\ cfg.mode = "Execute" => ret.done
    /\ Len(runs) + 1 < MaxRuns
    /\ runs' = Append(runs, yielded)
    /\ pc' = "start"
    /\ top' = EmptyHistory
    /\ subject' = [id |-> 0, state |-> <<>>]
    /\ nsubj' = 0
    /\ invalids' = <<>>
    /\ idx' = 1
    /\ yielded' = <<>>
    /\ calls' = <<>>
    /\ pushLog' = <<>>
    /\ popLog' = <<>>
    /\ ended' = <<>>
    /\ stopped' = FALSE
    /\ acc' = EmptyAcc
    /\ ret' = NoRet
    /\ UNCHANGED <<cfg, paths>>
    /\ UNCHANGED store
    /\ UNCHANGED <<downcast, elements, batch, accumulator, queue, eos, chan, exec, trace>>

\* the Subjects with the shorter branch trees
AgainInit ==
    /\ Init
    /\ cfg.impl = "apply"
    /\ cfg.d <= MaxDepth - 2

AgainNext ==
    \/ ApplySeed
    \/ ApplyPop
    \/ ApplyInit
    \/ ApplyAlign
    \/ ApplyStep
    \/ ApplyClassify
    \/ ApplyFlush
    \/ ExecuteReturn
    \/ RunAgain

AgainSpec == AgainInit /\ [][AgainNext]_vars

\* One run of apply that takes a step whenever it can: the function of
\* apply is sequential code, each of its steps returns (initFn, ApplyEvent
\* and NextEvents are taken to return), and so does the consumer.
\* The Subjects are those that never fail and have no soft error, those that
\* fail once and those that offer nothing once they have a soft error.
LiveInit ==
    /\ Init
    /\ cfg.impl = "apply"
    /\ cfg.d <= MaxDepth - 1
    /\ cfg.soft = NoSoft \/ (cfg.fatal = NoFatal /\ cfg.stuck)

LiveNext ==
    \/ ApplySeed
    \/ ApplyPop
    \/ ApplyInit
    \/ ApplyAlign
    \/ ApplyStep
    \/ ApplyClassify
    \/ ApplyFlush
    \/ ExecuteReturn

LiveSpec == LiveInit /\ [][LiveNext]_vars /\ WF_vars(LiveNext)

\* One call of matcher.Execute, on a new matcher and an input.
MatchInit ==
    /\ Unused
    /\ accumulator = EmptyAcc
    /\ queue = <<>>
    /\ eos = NewErrRorSol
    /\ chan = NilChan
    /\ \E m \in Matchers, s \in Inputs :
          exec = [NoExec EXCEPT !.m = m, !.slice = s, !.at = "start"]
    /\ runs = <<>>
    /\ trace = <<>>

MatchNext ==
    \/ MatcherExecuteStart
    \/ MatcherExecuteLoop
    \/ MatcherExecuteReturn

MatchSpec == MatchInit /\ [][MatchNext]_vars

----------------------------------------------------------------------------
\* Properties.

Proj(r) == [Timeline |-> r.Timeline, Subject |-> r.Subject, HasErr |-> r.HasErr]

\* of a sequence of Results or of terminated paths, the invalid and the valid
Invalid(s) == SelectSeq([i \in 1..Len(s) |-> Proj(s[i])], LAMBDA r : r.HasErr)

Valid(s) == SelectSeq([i \in 1..Len(s) |-> Proj(s[i])], LAMBDA r : ~r.HasErr)

\* the Results yielded without an error
Items == SelectSeq(yielded, LAMBDA r : r.Error = "nil")

NoErrorItem == \A i \in 1..Len(yielded) : yielded[i].Error = "nil"

\* the sequence has ended by itself
Ended == pc = "done" /\ ~stopped

Completed == Ended /\ NoErrorItem

\* no call of initFn, ApplyEvent or NextEvents has returned an error
NoFailedCall == \A i \in 1..Len(calls) : calls[i].err = "nil"

FatalCalled ==
    \E i \in 1..Len(calls) : calls[i].op \in {"ApplyEvent", "NextEvents"} /\ calls[i].err # "nil"

\* the events passed to ApplyEvent on the Subject numbered id, in order
AppliedTo(id) ==
    LET c == SelectSeq(calls, LAMBDA x : x.op = "ApplyEvent" /\ x.subj = id)
    IN [i \in 1..Len(c) |-> c[i].ev]

\* the calls made on the Subject numbered id, in order
CallsOn(id) == SelectSeq(calls, LAMBDA x : x.op # "initFn" /\ x.subj = id)

\* the number of ApplyEvent calls at the head of the sequence c
RECURSIVE ReplayLen(_)
ReplayLen(c) ==
    IF Len(c) = 0 \/ c[1].op # "ApplyEvent" THEN 0 ELSE 1 + ReplayLen(Tail(c))

\* C1: for a Subject whose initFn, ApplyEvent and NextEvents never return an
\* error, no valid Result is yielded after an invalid one, an invalid Result
\* is yielded only once no History is pending, and when the sequence has
\* ended every path that terminated invalid has been yielded as a Result.
C1_ValidBeforeInvalid ==
    cfg.fatal = NoFatal =>
        /\ \A i, j \in 1..Len(Items) : (i < j /\ Items[i].HasErr) => Items[j].HasErr
        /\ (\E i \in 1..Len(Items) : Items[i].HasErr) => Len(paths) = 0
        /\ Ended => Invalid(Items) = Invalid(ended)

\* C2: once ApplyEvent or NextEvents has returned an error, exactly one item
\* with a non-nil Error has been yielded, it carries that error and is the
\* last item, and no step of the run is possible any more.
C2_FatalShortCircuit ==
    /\ \A i \in 1..Len(yielded) : yielded[i].Error # "nil" => i = Len(yielded)
    /\ FatalCalled =>
        /\ calls[Len(calls)].err # "nil"
        /\ Len(yielded) > 0
        /\ yielded[Len(yielded)].Error = calls[Len(calls)].err
        /\ ~ENABLED Next

C2_Witness ==
    /\ FatalCalled
    /\ Len(paths) > 0
    /\ Len(invalids) > 0
    /\ Len(Valid(Items)) > 0

\* C3: as long as no call of initFn, ApplyEvent or NextEvents has returned an
\* error, no item with a non-nil Error is yielded, and the sequence ends by
\* itself only when no History is pending.
C3_SoftNeverSurfaced ==
    NoFailedCall =>
        /\ NoErrorItem
        /\ Ended => Len(paths) = 0

\* C4 as claimed: the History the Evaluator removes is the one at the head of
\* the pending ones, the earliest added.
C4_TakesEarliest ==
    cfg.impl = "apply" =>
        \A i \in 1..Len(popLog) : popLog[i].taken = popLog[i].pending[1]

\* the position of the timeline t in pushLog (under Evaluator.apply no
\* timeline is added twice)
AddedAt(t) == CHOOSE n \in 1..Len(pushLog) : pushLog[n] = t

\* C4: the pending Histories of the Evaluator lie in the order in which they
\* were added, and the one removed is the last of them, the latest added.
\* Stated of the latest removal: every removal is the latest one in the state
\* that follows it, and its popLog entry does not change afterwards.
C4_TakesLatest ==
    (cfg.impl = "apply" /\ Len(popLog) > 0) =>
        LET pending == popLog[Len(popLog)].pending IN
        /\ popLog[Len(popLog)].taken = pending[Len(pending)]
        /\ \A a \in 1..(Len(pending) - 1) : AddedAt(pending[a]) < AddedAt(pending[a + 1])

C4_Witness ==
    /\ cfg.impl = "apply"
    /\ \E i \in 1..Len(popLog) : Len(popLog[i].pending) >= 3

\* the 3-bit counter under Evaluator.apply
Counter ==
    /\ cfg.impl = "apply"
    /\ cfg.k = 2
    /\ cfg.d = 3
    /\ cfg.soft = NoSoft
    /\ cfg.fatal = NoFatal

\* C5 as claimed: for the 3-bit counter the Histories are taken up in the
\* order in which they were added, the i-th taken being the i-th added.
C5_BreadthFirstOrder ==
    Counter => \A i \in 1..Len(popLog) : popLog[i].taken = pushLog[i]

\* C5: for the 3-bit counter the timelines are yielded in the order 111, 110,
\* 101, 100, 011, 010, 001, 000, all of them valid, and the sequence ends
\* after the eighth.
C5_DepthFirstOrder ==
    Counter =>
        LET order == << <<1, 1, 1>>, <<1, 1, 0>>, <<1, 0, 1>>, <<1, 0, 0>>,
                        <<0, 1, 1>>, <<0, 1, 0>>, <<0, 0, 1>>, <<0, 0, 0>> >>
        IN /\ Len(yielded) <= Len(order)
           /\ \A i \in 1..Len(yielded) :
                 /\ yielded[i].Timeline = order[i]
                 /\ ~yielded[i].HasErr
                 /\ yielded[i].Error = "nil"
           /\ Ended => Len(yielded) = Len(order)

C5_Witness ==
    /\ Counter
    /\ Completed
    /\ Len(yielded) = 8

\* C6: for a Subject that never errors, every yielded Result is valid, its
\* timeline is a sequence of d of the k offered events, no timeline is
\* yielded twice, and when the sequence has ended the yielded timelines are
\* all the k^d sequences.
C6_CartesianProduct ==
    (cfg.soft = NoSoft /\ cfg.fatal = NoFatal) =>
        /\ \A i \in 1..Len(yielded) :
              /\ ~yielded[i].HasErr
              /\ yielded[i].Error = "nil"
              /\ yielded[i].Timeline \in [1..cfg.d -> 0..(cfg.k - 1)]
        /\ \A i, j \in 1..Len(yielded) : i < j => yielded[i].Timeline # yielded[j].Timeline
        /\ Ended => {yielded[i].Timeline : i \in 1..Len(yielded)} = [1..cfg.d -> 0..(cfg.k - 1)]

\* C7: under Evaluator.apply, the calls on the Subject of the i-th History
\* taken start with one ApplyEvent per event of that History's timeline, in
\* timeline order; NextEvents is called only after all of them. Stated of the
\* History taken last: every History taken is the last one taken for as long
\* as calls are made on its Subject.
C7_ReplayFromStart ==
    (cfg.impl = "apply" /\ Len(popLog) > 0) =>
        LET c == CallsOn(Len(popLog))
            n == ReplayLen(c)
            taken == popLog[Len(popLog)].taken
        IN /\ n <= Len(taken)
           /\ \A j \in 1..n : c[j].ev = taken[j]
           /\ Len(c) > n => n = Len(taken)

C7_Witness ==
    /\ cfg.impl = "apply"
    /\ \E i \in 1..Len(popLog) :
          /\ Len(popLog[i].taken) >= 2
          /\ Len(CallsOn(i)) > Len(popLog[i].taken)

\* C8: the timeline of every Pair that Evaluate yields without an error is
\* the sequence of events passed to ApplyEvent on the Pair's Subject.
C8_TimelineIsApplied ==
    cfg.impl = "Evaluate" =>
        \A i \in 1..Len(yielded) :
            yielded[i].Error = "nil" => yielded[i].Timeline = AppliedTo(yielded[i].Subject)

AllInvalid ==
    /\ cfg.mode = "Execute"
    /\ ret.done
    /\ NoFailedCall
    /\ Len(ended) > 0
    /\ \A i \in 1..Len(ended) : ended[i].HasErr

\* C10 as claimed: when every path ends invalid, Execute returns the invalid
\* Results together with an error that tells the outcome apart.
C10_NoValidSignal ==
    AllInvalid =>
        /\ Invalid(ret.results) = Invalid(ended)
        /\ ret.err # "nil"

\* C10: when every path ends invalid, Execute returns one Result per path,
\* in the order of termination, and a nil error.
C10_AllInvalidReturned ==
    AllInvalid =>
        /\ Invalid(ret.results) = Invalid(ended)
        /\ Len(ret.results) = Len(ended)
        /\ ret.err = "nil"

C10_Witness ==
    /\ AllInvalid
    /\ Len(ended) >= 2

\* C11: when Execute returns an error, the error is the Error of the last
\* Result yielded, and the Results returned are the Results yielded before
\* that one, in order, all of them valid and without an Error.
C11_ExecuteOnFatal ==
    (cfg.mode = "Execute" /\ ret.done /\ ret.err # "nil") =>
        /\ Len(yielded) > 0
        /\ ret.err = yielded[Len(yielded)].Error
        /\ ret.results = SubSeq(yielded, 1, Len(yielded) - 1)
        /\ \A i \in 1..Len(ret.results) :
              ~ret.results[i].HasErr /\ ret.results[i].Error = "nil"

C11_Witness ==
    /\ cfg.mode = "Execute"
    /\ ret.done
    /\ ret.err # "nil"
    /\ Len(ret.results) >= 1
    /\ Len(paths) > 0
    /\ Len(invalids) > 0

\* the timeline held by the slice of the i-th History value
Stored(i) == ReadSlice(mem, pool[i].s)

\* C12: every History value still holds the timeline it was made with, and a
\* History made by AppendEvent holds the timeline of the History it was made
\* from followed by the event, with the arrow of that History.
C12_AppendEventIsolated ==
    \A i \in 1..Len(pool) :
        /\ Stored(i) = pool[i].h.timeline
        /\ pool[i].by = "AppendEvent" =>
              /\ Len(Stored(i)) = Len(Stored(pool[i].from)) + 1
              /\ SubSeq(Stored(i), 1, Len(Stored(i)) - 1) = Stored(pool[i].from)
              /\ pool[i].h.arrow = pool[pool[i].from].h.arrow

C12_Witness ==
    \E i, j \in 1..Len(pool) :
        /\ pool[i].by = "AppendEvent"
        /\ pool[j].by = "AppendEvent"
        /\ pool[i].from = pool[j].from
        /\ Stored(i) # Stored(j)
        /\ pool[i].h.arrow = 1

\* C13: the arrow of a History lies between 0 and the length of its timeline.
C13_ArrowInRange == 0 <= top.arrow /\ top.arrow <= Len(top.timeline)

C13_Witness ==
    /\ last.op = "WalkForward"
    /\ last.err = "ErrEOT"
    /\ top.arrow = Len(top.timeline)
    /\ Len(top.timeline) >= 2

NoBranching ==
    /\ cfg.impl \in {"apply", "Evaluate"}
    /\ cfg.d = 0
    /\ cfg.soft = NoSoft
    /\ cfg.fatal = NoFatal

\* C17: for a Subject that never offers an event and never errors, initFn is
\* called at most once and no ApplyEvent is made, at most one Result is
\* yielded, which has an empty timeline, the first Subject with no event
\* applied and no Error, and when the sequence has ended one Result has been
\* yielded.
C17_SingleResult ==
    NoBranching =>
        /\ nsubj <= 1
        /\ \A i \in 1..Len(calls) : calls[i].op # "ApplyEvent"
        /\ Len(yielded) <= 1
        /\ \A i \in 1..Len(yielded) :
              /\ yielded[i].Timeline = <<>>
              /\ yielded[i].Subject = 1
              /\ yielded[i].State = <<>>
              /\ ~yielded[i].HasErr
              /\ yielded[i].Error = "nil"
        /\ Ended => (Len(yielded) = 1 /\ nsubj = 1)

C17_Witness ==
    /\ NoBranching
    /\ Ended
    /\ Len(yielded) = 1

\* C18: once the consumer has stopped, the generator function has returned
\* and no step of the run is possible: no call, no removal of a pending
\* History, no further Result.
C18_StopIsFinal ==
    stopped =>
        /\ pc = "done"
        /\ ~ENABLED Next

C18_Witness ==
    /\ cfg.mode = "AsSeq"
    /\ stopped
    /\ Len(paths) > 0
    /\ Len(invalids) > 0
    /\ yielded[Len(yielded)].Error = "nil"


\* C19: at every point of a run the valid Results yielded are exactly the
\* paths that have terminated valid, in the order of their termination; the
\* j-th path to terminate is the one of the j-th initFn call, and at most one
\* path has been started (History removed, initFn called) beyond those that
\* have terminated. So when a valid Result is delivered, no History has been
\* removed and no initFn call made for a path that terminates after it.
C19_YieldedAtTermination ==
    /\ Valid(Items) = Valid(ended)
    /\ \A j \in 1..Len(ended) : ended[j].Subject = j
    /\ nsubj <= Len(ended) + 1
    /\ Len(popLog) <= Len(ended) + 1
    /\ pc = "pop" =>
          /\ nsubj = Len(ended)
          /\ Len(popLog) = Len(ended)

C19_Witness ==
    /\ cfg.impl = "apply"
    /\ pc = "pop"
    /\ Len(Valid(Items)) >= 2
    /\ Len(paths) > 0
    /\ Len(invalids) > 0
    /\ ~yielded[Len(yielded)].HasErr


\* initFn has returned an error, or a nil Subject without an error
InitFailed == nsubj > 0 /\ IsNil(subject)

\* C20: once initFn has returned an error or a nil Subject, exactly one item
\* with a non-nil Error has been yielded and it is the last one, the failed
\* initFn call is the last call made (no ApplyEvent or NextEvents call
\* follows it), and no step of the run is possible any more.
C20_InitFailureIsFatal ==
    InitFailed =>
        /\ calls[Len(calls)].op = "initFn"
        /\ Len(yielded) > 0
        /\ yielded[Len(yielded)].Error # "nil"
        /\ \A i \in 1..(Len(yielded) - 1) : yielded[i].Error = "nil"
        /\ pc = "done"
        /\ ~ENABLED Next


\* the errors used for control flow only
Sentinels == {"ErrEOT", "ErrBreak", "ErrEmptyQueue"}

ReplayEvents(log) == [i \in 1..Len(log) |-> log[i].ev]

\* the Subject that the next call of a never-failing initFn returns
Another == [id |-> nsubj + 1, state |-> <<>>]

InitCalls == SelectSeq(calls, LAMBDA c : c.op = "initFn")

IsSuffix(s, t) == Len(s) <= Len(t) /\ s = SubSeq(t, Len(t) - Len(s) + 1, Len(t))

\* the last n elements of the sequence s
Tail_n(s, n) == SubSeq(s, IF Len(s) > n THEN Len(s) - n + 1 ELSE 1, Len(s))

\* C23: initFn has been called once for every History removed from the
\* pending collection (the call for the History in hand may be the next step
\* under Evaluator.apply, the removal may be the next step under Evaluate);
\* a call is made on the newest Subject only, so a Subject receives no call
\* once a later one exists; the events applied to the Subject of a terminated
\* path are events of that path's timeline, its tail; and no two yielded
\* items carry the same Subject. Stated of the latest calls, the path that
\* terminated last and the item yielded last: each call, path and item is
\* among the latest in the state after the step that adds it, and the calls
\* on a Subject do not change once a later Subject exists.
C23_OneSubjectPerPath ==
    /\ Len(InitCalls) = nsubj
    /\ cfg.impl = "apply" => nsubj \in {Len(popLog) - 1, Len(popLog)}
    /\ cfg.impl = "Evaluate" => nsubj \in {Len(popLog), Len(popLog) + 1}
    /\ pc \in {"step", "classify", "pop", "flush"} => nsubj = Len(popLog)
    /\ Len(calls) > 0 => calls[Len(calls)].subj = nsubj
    /\ LET w == Tail_n(calls, MaxLen + 2) IN
       \A i \in 1..(Len(w) - 1) : w[i].subj <= w[i + 1].subj
    /\ Len(ended) > 0 =>
          /\ ended[Len(ended)].Subject = Len(ended)
          /\ IsSuffix(AppliedTo(Len(ended)), ended[Len(ended)].Timeline)
    /\ \A i \in 1..(Len(yielded) - 1) : yielded[i].Subject # yielded[Len(yielded)].Subject

C23_Witness ==
    /\ Completed
    /\ Len(popLog) >= 4
    /\ Len(yielded) >= 4
    /\ \A j \in 1..Len(ended) : Len(AppliedTo(j)) >= 2


\* C24: every History added to the pending collection, the seed included, is
\* either still pending or has been removed, the removals taking pending
\* Histories one at a time and none of them twice; when the run has completed
\* none is pending, so each has been removed exactly once, and the path of
\* each has terminated. Stated of the latest removal: every removal is the
\* latest one in the state that follows it.
C24_AllExplored ==
    /\ Len(pushLog) = Len(popLog) + Len(paths)
    /\ Len(popLog) > 0 =>
          LET p == popLog[Len(popLog)] IN
          /\ \E i \in 1..Len(p.pending) : p.pending[i] = p.taken
          /\ \A i \in 1..(Len(popLog) - 1) : popLog[i].taken # p.taken
    /\ Completed =>
          /\ Len(paths) = 0
          /\ Len(popLog) = Len(pushLog)
          /\ Len(ended) = Len(popLog)

C24_Witness ==
    /\ Completed
    /\ Len(pushLog) >= 4
    /\ \E i \in 1..Len(popLog) : Len(popLog[i].pending) >= 3
    /\ Len(invalids) >= 1


RECURSIVE Flatten(_)
Flatten(ps) == IF Len(ps) = 0 THEN <<>> ELSE Head(ps).Results \o Flatten(Tail(ps))

\* the results of the valid and of the invalid Pairs received, in arrival order
SeenValid == Flatten(SelectSeq(seen, LAMBDA p : p.IsValid))

SeenInvalid == Flatten(SelectSeq(seen, LAMBDA p : ~p.IsValid))

\* the elements for which a Pair is sent
Senders == {i \in 1..Len(elements) : elements[i] \in {"valid", "invalid", "mixed"}}

\* the results of the valid and of the invalid Pairs, from the elements alone
ExpectedValid ==
    {Res(i, 1, FALSE) : i \in {j \in 1..Len(elements) : elements[j] = "valid"}}
    \cup {Res(i, 2, FALSE) : i \in {j \in 1..Len(elements) : elements[j] = "mixed"}}

ExpectedInvalid ==
    {Res(i, 1, TRUE) : i \in {j \in 1..Len(elements) : elements[j] = "invalid"}}

Range(s) == {s[i] : i \in 1..Len(s)}

\* the listener has received every Pair sent and has finished
Drained ==
    /\ Len(ch) = 0
    /\ closed
    /\ wg = 0
    /\ Len(seen) = Cardinality(Senders)

Front(t) == SubSeq(t, 1, Len(t) - 1)

Last(t) == t[Len(t)]

\* C27: under Evaluator.apply, at a step where NextEvents offers k >= 1
\* candidates, applyOnce adds k - 1 Histories, the current one extended by
\* each candidate but the last, the first candidate uppermost; it goes on
\* with the current History extended by the last candidate, and its calls
\* are NextEvents and ApplyEvent of that candidate on the current Subject.
\* In the run, no History ending with the last candidate is ever added, and
\* of two Histories added at one step the one of the earlier candidate is
\* removed first. The run part is stated of the Histories added last and of
\* the latest removal: each is among those in the state after its step.
C27_BranchStep ==
    cfg.impl = "apply" =>
        /\ (pc = "step" /\ ~IsNil(subject)) =>
              LET n == NextEvents(subject.state)
                  r == applyOnce(subject, top, paths)
                  k == Len(n.events)
                  added == Added(paths, r.paths)
              IN (n.err = "nil" /\ k >= 1) =>
                    /\ Len(added) = k - 1
                    /\ SubSeq(r.paths, 1, Len(paths)) = paths
                    /\ \A j \in 1..(k - 1) :
                          added[k - j].timeline = Append(top.timeline, n.events[j])
                    /\ r.history.timeline = Append(top.timeline, n.events[k])
                    /\ r.log = <<CallNext(subject.id, "nil"),
                                 CallApply(subject.id, n.events[k],
                                           ApplyEvent(subject.state, n.events[k]).err)>>
        /\ LET w == Tail_n(pushLog, MaxK) IN
           \A i \in 1..Len(w) : Len(w[i]) > 0 => Last(w[i]) # cfg.k - 1
        /\ Len(popLog) > 0 =>
              LET b == popLog[Len(popLog)].taken IN
              \A i \in 1..(Len(popLog) - 1) :
                  LET a == popLog[i].taken IN
                  (Len(a) > 0 /\ Len(a) = Len(b) /\ Front(a) = Front(b))
                      => Last(a) < Last(b)

C27_Witness ==
    /\ cfg.impl = "apply"
    /\ cfg.k = MaxK + 1
    /\ Completed
    /\ Len(popLog) = Len(pushLog)
    /\ \E i \in 1..Len(popLog) : \E j \in (i + 1)..Len(popLog) :
          /\ Len(popLog[i].taken) > 0
          /\ Len(popLog[j].taken) = Len(popLog[i].taken)
          /\ Front(popLog[j].taken) = Front(popLog[i].taken)
          /\ Last(popLog[i].taken) < Last(popLog[j].taken)


\* the call numbered i is an ApplyEvent of live stepping that returned no
\* error: it follows a NextEvents on the same Subject (a replayed event
\* follows initFn or another replayed event)
LiveApply(i) ==
    /\ i >= 2
    /\ i <= Len(calls)
    /\ calls[i].op = "ApplyEvent"
    /\ calls[i].err = "nil"
    /\ calls[i - 1].op = "NextEvents"
    /\ calls[i - 1].subj = calls[i].subj

\* the state of the Subject in hand right after the call numbered i on it
StateAfter(i) ==
    LET later == SelectSeq(SubSeq(calls, i + 1, Len(calls)),
                           LAMBDA x : x.op = "ApplyEvent" /\ x.err = "nil")
    IN SubSeq(subject.state, 1, Len(subject.state) - Len(later))

\* the last call made is a live ApplyEvent on the Subject in hand, and
\* HasError() is true after it
LiveErrored ==
    /\ LiveApply(Len(calls))
    /\ calls[Len(calls)].subj = subject.id
    /\ HasError(subject.state)

ProperPrefix(s, t) == Len(s) < Len(t) /\ s = SubSeq(t, 1, Len(s))

\* C28: once HasError() is true after an event applied in live stepping, in
\* either revision, the path stops. Stepping is over (no NextEvents or
\* ApplyEvent follows on that Subject: a live ApplyEvent followed by another
\* call on its Subject left HasError() false); the path's timeline ends with
\* that event and no History, pending or ever added, extends it; the path is
\* classified once, as invalid, with that timeline, and is not yielded before
\* the invalid Results are; when the run completes the invalid Results
\* yielded are exactly those classified. The calls are stated of the last
\* three made and the additions of the last MaxK: each call and each addition
\* is among them in the state after its step.
C28_ErrorStopsPath ==
    /\ LiveErrored =>
          /\ pc \notin {"step", "align"}
          /\ pc = "classify" =>
                /\ Len(top.timeline) > 0
                /\ Last(top.timeline) = calls[Len(calls)].ev
                /\ \A i \in 1..Len(paths) : ~ProperPrefix(top.timeline, paths[i].timeline)
                /\ \A i \in 1..Len(pushLog) : ~ProperPrefix(top.timeline, pushLog[i])
                /\ \A i \in 1..Len(invalids) : invalids[i].Subject # subject.id
                /\ \A i \in 1..Len(yielded) : yielded[i].Subject # subject.id
          /\ pc \in {"pop", "init", "flush", "done"} =>
                /\ Len(ended) > 0
                /\ ended[Len(ended)].Subject = subject.id
                /\ ended[Len(ended)].HasErr
                /\ Len(invalids) > 0
                /\ LET r == invalids[Len(invalids)] IN
                   /\ r.Subject = subject.id
                   /\ r.HasErr
                   /\ r.Error = "nil"
                   /\ r.Timeline = ended[Len(ended)].Timeline
                   /\ Last(r.Timeline) = calls[Len(calls)].ev
                /\ \A i \in 1..(Len(invalids) - 1) : invalids[i].Subject # subject.id
    /\ \A i \in (Len(calls) - 2)..(Len(calls) - 1) :
          (LiveApply(i) /\ calls[i].subj = subject.id /\ calls[i + 1].subj = subject.id)
              => ~HasError(StateAfter(i))
    /\ \A i \in 1..Len(ended) :
          ended[i].HasErr =>
              \A w \in Range(Tail_n(pushLog, MaxK)) : ~ProperPrefix(ended[i].Timeline, w)
    /\ \A i \in 1..Len(yielded) :
          yielded[i].HasErr /\ yielded[i].Error = "nil" => pc \in {"flush", "done"}
    /\ Completed => Invalid(Items) = Invalid(invalids)

\* a run of either revision completed in which a path was stopped by
\* HasError() after a live event and its invalid Result yielded
C28_Witness ==
    /\ Completed
    /\ Len(yielded) > Len(invalids)
    /\ \E i \in 2..Len(calls) : \E j \in 1..Len(yielded) :
          /\ LiveApply(i)
          /\ i < Len(calls)
          /\ calls[i + 1].subj # calls[i].subj
          /\ yielded[j].Subject = calls[i].subj
          /\ yielded[j].HasErr
          /\ Last(yielded[j].Timeline) = calls[i].ev


\* C29: in Evaluate, at a step where NextEvents offers the candidates
\* e1..ek, pushPaths leaves the queue as it was and enqueues behind it the
\* k - 1 Histories of ek, ..., e2 in that order (nothing when k = 1), and
\* the current History goes on extended by e1, which is the event then
\* applied to the Subject. In the run, no History ending with a first
\* candidate is ever enqueued, and two Histories enqueued one after the
\* other at one step are those of a later and then an earlier candidate.
\* The run part is stated of the Histories enqueued last: each is among
\* them in the state after its step.
C29_PushPathsOrder ==
    cfg.impl = "Evaluate" =>
        /\ pc = "step" =>
              LET n == NextEvents(subject.state)
                  r == executeUntilStep(paths, subject, top)
                  k == Len(n.events)
                  added == Added(paths, r.queue)
              IN (n.err = "nil" /\ k >= 1) =>
                    /\ Len(added) = k - 1
                    /\ SubSeq(r.queue, 1, Len(paths)) = paths
                    /\ \A j \in 1..(k - 1) :
                          added[j].timeline = Append(top.timeline, n.events[k - j + 1])
                    /\ r.history.timeline = Append(top.timeline, n.events[1])
                    /\ Len(r.log) = 2 =>
                          /\ r.log[2].op = "ApplyEvent"
                          /\ r.log[2].subj = subject.id
                          /\ r.log[2].ev = n.events[1]
        /\ LET w == Tail_n(pushLog, MaxK) IN
           /\ \A i \in 1..Len(w) : Len(w[i]) > 0 => Last(w[i]) # 0
           /\ \A i \in 1..(Len(w) - 1) :
                 (Len(w[i]) = Len(w[i + 1]) /\ Front(w[i]) = Front(w[i + 1]))
                     => Last(w[i]) > Last(w[i + 1])

\* a completed run of Evaluate in which a step with three or more
\* candidates enqueued the Histories of the last and of the one before it
C29_Witness ==
    /\ cfg.impl = "Evaluate"
    /\ cfg.k = MaxK + 1
    /\ Completed
    /\ \E i \in 1..(Len(pushLog) - 1) :
          /\ Len(pushLog[i]) > 0
          /\ Len(pushLog[i + 1]) = Len(pushLog[i])
          /\ Front(pushLog[i + 1]) = Front(pushLog[i])
          /\ Last(pushLog[i]) = cfg.k - 1
          /\ Last(pushLog[i + 1]) = cfg.k - 2


SinceReset ==
    LET R == {i \in 1..Len(trace) : trace[i].op = "Reset"}
        from == IF R = {} THEN 1 ELSE (CHOOSE i \in R : \A j \in R : j <= i) + 1
    IN SubSeq(trace, from, Len(trace))

\* the elements given to the calls of op among the calls cs, in call order
GivenTo(op, cs) ==
    LET sel == SelectSeq(cs, LAMBDA c : c.op = op) IN
    [i \in 1..Len(sel) |-> sel[i].elem]

\* C31: after any calls of AddValid, AddInvalid and Reset on an Accumulator,
\* if AddValid was called since the last Reset then IsValid() is true and
\* Results() is the elements given to AddValid since then, in call order;
\* otherwise IsValid() is false and Results() is the elements given to
\* AddInvalid since the last Reset, in call order.
C31_AccumulatorContents ==
    IF GivenTo("AddValid", SinceReset) # <<>>
    THEN /\ IsValid(accumulator)
         /\ Results(accumulator) = GivenTo("AddValid", SinceReset)
    ELSE /\ ~IsValid(accumulator)
         /\ Results(accumulator) = GivenTo("AddInvalid", SinceReset)

\* an invalid element was discarded by AddValid and another ignored after it
C31_Witness ==
    /\ Len(trace) = 3
    /\ trace[1].op = "AddInvalid"
    /\ trace[2].op = "AddValid"
    /\ trace[3].op = "AddInvalid"
    /\ Results(accumulator) = <<trace[2].elem>>


\* the elements of the calls of op among the calls cs that returned no error
Passed(op, cs) ==
    LET sel == SelectSeq(cs, LAMBDA c : c.op = op /\ c.err = "nil") IN
    [i \in 1..Len(sel) |-> sel[i].elem]

\* C32: after any calls of Enqueue and Dequeue on a Queue, the elements
\* returned by the successful Dequeue calls, in call order, followed by the
\* elements still held, are the elements enqueued, in the order enqueued.
\* A Dequeue fails exactly when nothing is held, with ErrEmptyQueue and the
\* zero element, and leaves the Queue empty; IsEmpty() is true exactly when
\* as many Dequeue calls have succeeded as Enqueue calls were made. The
\* failing Dequeue is stated of the latest call: each call is the latest
\* one in the state that follows it.
C32_QueueFifo ==
    /\ Passed("Dequeue", trace) \o queue = Passed("Enqueue", trace)
    /\ IsEmpty(queue) = (Len(Passed("Dequeue", trace)) = Len(Passed("Enqueue", trace)))
    /\ \A i \in 1..Len(trace) :
          /\ trace[i].op = "Enqueue" => trace[i].err = "nil"
          /\ trace[i].err # "nil" => trace[i].err = "ErrEmptyQueue" /\ trace[i].elem = ZeroElem
    /\ (Len(trace) > 0 /\ trace[Len(trace)].op = "Dequeue") =>
          LET before == SubSeq(trace, 1, Len(trace) - 1)
              held == Len(Passed("Enqueue", before)) - Len(Passed("Dequeue", before))
          IN /\ (trace[Len(trace)].err # "nil") = (held = 0)
             /\ trace[Len(trace)].err # "nil" => IsEmpty(queue)

\* two distinct elements were enqueued and then dequeued in that order, and
\* a further Dequeue failed
C32_Witness ==
    /\ Len(trace) = 5
    /\ trace[1].op = "Enqueue"
    /\ trace[2].op = "Enqueue"
    /\ trace[1].elem # trace[2].elem
    /\ trace[3] = Returned("Dequeue", trace[1].elem, "nil")
    /\ trace[4] = Returned("Dequeue", trace[2].elem, "nil")
    /\ trace[5].err = "ErrEmptyQueue"
    /\ IsEmpty(queue)


\* the latest calls were Reset and then AddErr with a non-nil error
ErrAfterReset ==
    /\ Len(trace) >= 2
    /\ trace[Len(trace) - 1].op = "Reset"
    /\ trace[Len(trace)].op = "AddErr"
    /\ trace[Len(trace)].elem # "nil"

\* C33: after any calls of AddSol and AddErr on an ErrRorSol followed by
\* Reset, an AddErr with a non-nil error is recorded: HasError() is true and
\* Errors() holds that error.
C33_ResetReusable ==
    ErrAfterReset =>
        /\ EosHasError(eos)
        /\ \E i \in 1..Len(EosErrors(eos).elems) :
              EosErrors(eos).elems[i] = trace[Len(trace)].elem


\* C34: whatever the state of the channel at first, no call of a series of
\* Close calls panics; a call on an open channel closes it, and a call on a
\* nil or closed channel changes nothing. Each call is recorded with the
\* channel it was given, and the property is stated of the latest call.
C34_CloseIdempotent ==
    Len(trace) > 0 =>
        LET given == trace[Len(trace)].elem IN
        /\ trace[Len(trace)].err # "panic"
        /\ (~given.nil /\ ~given.closed) => chan.closed
        /\ (given.nil \/ given.closed) => chan = given


----------------------------------------------------------------------------
\* The matchers.

\* the literal a Single or a Slice matches
WordOf(m) == IF m.kind = "single" THEN <<m.target>> ELSE m.chars

Prefix(w, s) == Len(w) <= Len(s) /\ SubSeq(s, 1, Len(w)) = w

\* the longest sequence that starts both w and s
CommonPrefix(w, s) ==
    LET n == CHOOSE n \in 0..Len(w) :
               /\ n <= Len(s)
               /\ SubSeq(w, 1, n) = SubSeq(s, 1, n)
               /\ \A k \in (n + 1)..Len(w) : k > Len(s) \/ SubSeq(w, 1, k) # SubSeq(s, 1, k)
    IN SubSeq(w, 1, n)

\* Execute has returned from a call on an Or and an input that is not empty
OrReturned == exec.at = "returned" /\ exec.m.kind = "or" /\ Len(exec.slice) > 0

\* the alternatives of the Or whose literal starts the input
Completing ==
    {i \in 1..Len(exec.m.matchers) : Prefix(WordOf(exec.m.matchers[i]), exec.slice)}

\* C35: when no alternative of an Or matches the input, that is, when every
\* alternative has failed and none has completed, Execute returns an error
\* that is not nil.
C35_OrReportsFailure ==
    (OrReturned /\ Completing = {}) => exec.ret.err # "nil"

\* the alternative that wins: the longest literal, and the first given among
\* the longest
Winner ==
    CHOOSE i \in Completing :
        \A j \in Completing :
            \/ Len(WordOf(exec.m.matchers[j])) < Len(WordOf(exec.m.matchers[i]))
            \/ Len(WordOf(exec.m.matchers[j])) = Len(WordOf(exec.m.matchers[i])) /\ i <= j

\* C36: when one alternative of an Or or more matches the input, Execute
\* returns the longest match, and the solution of the Or is the first given
\* of the alternatives with that match.
C36_OrLongestFirst ==
    (OrReturned /\ Completing # {}) =>
        /\ exec.ret.matched = WordOf(exec.m.matchers[Winner])
        /\ exec.sol = Winner - 1

\* two alternatives match the same elements and the first given is the solution
C36_Witness ==
    /\ OrReturned
    /\ Completing = {1, 2}
    /\ WordOf(exec.m.matchers[1]) = WordOf(exec.m.matchers[2])
    /\ Len(exec.ret.matched) = MaxWord
    /\ exec.sol = 0

----------------------------------------------------------------------------
\* Runs one after the other.

\* the first n elements of s
FirstN(s, n) == SubSeq(s, 1, IF n < Len(s) THEN n ELSE Len(s))

\* C38: a run on an Evaluator that was used before starts from the empty
\* History alone and yields, as far as both runs went, the Results of the
\* run before in the same order, whether that run was completed, aborted or
\* stopped by the consumer.
C38_RunsIndependent ==
    \A r \in 1..Len(runs) :
        /\ (pc = "pop" /\ popLog = <<>>) => paths = <<EmptyHistory>>
        /\ FirstN(yielded, Len(runs[r])) = FirstN(runs[r], Len(yielded))

\* the consumer stopped the run before, and this one went further
C38_Witness ==
    /\ Len(runs) = 1
    /\ pc = "done"
    /\ Len(runs[1]) >= 1
    /\ Len(yielded) > Len(runs[1]) + 1


----------------------------------------------------------------------------
\* The order of the invalid Results.

\* C39: the invalid Results are buffered in the order in which their paths
\* terminated, a valid Result is yielded only while no invalid one has been,
\* and the n-th invalid Result yielded is the n-th path that terminated
\* invalid.
C39_InvalidInOrder ==
    /\ Invalid(invalids) = Invalid(ended)
    /\ Len(Items) > 0 =>
          LET r == Items[Len(Items)]
              n == Len(Invalid(Items))
          IN IF r.HasErr
             THEN /\ n <= Len(Invalid(ended))
                  /\ Proj(r) = Invalid(ended)[n]
             ELSE n = 0

\* two invalid Results and more have been yielded after a valid one
C39_Witness ==
    /\ Len(Invalid(Items)) >= 2
    /\ Len(Valid(Items)) >= 1
    /\ Invalid(Items)[1] # Invalid(Items)[2]
    /\ Ended


----------------------------------------------------------------------------
\* Termination.

\* C40: every run of apply ends: with a panic on a nil Subject, because the
\* consumer returned false, with an item that carries an error, or, when the
\* consumer keeps pulling and nothing fails, with no History pending.
C40_Terminates ==
    <>(\/ pc = "panic"
       \/ /\ pc = "done"
          /\ stopped \/ ~NoErrorItem \/ Len(paths) = 0)

\* a run of three paths and more has ended with no History pending
C40_Witness ==
    /\ Completed
    /\ Len(paths) = 0
    /\ Len(popLog) >= 3
    /\ Len(yielded) >= 3

====
